---------------------------- MODULE Spec2Model ----------------------------
(***************************************************************************)
(* A model of the rating aggregation and actor report code of the movies   *)
(* application: the rating properties of models.py and the three actor     *)
(* report management commands.                                             *)
(*                                                                         *)
(* The Content Store is the relational data the ORM reads: rating rows per *)
(* movie and per episode, the season of each episode, the show of each     *)
(* season, the casts.  Primary keys are positive integers.  An average is  *)
(* kept as an exact fraction in lowest terms (the database's AVG, without  *)
(* the rounding of its numeric type).                                      *)
(***************************************************************************)
EXTENDS Integers, Sequences, FiniteSets, TLC

(***************************************************************************)
(* Bounds of the model.                                                    *)
(***************************************************************************)
NumShows == 1
NumSeasons == 2
NumEpisodes == 3
NumMovies == 2
NumActors == 6
NumDirectors == 1
MaxRatingRows == 3
MaxListLen == 3
MaxDataLen == 5
MaxDenominator == 6
MaxRuns == 2
ReportLimit == 3
MaxYears == 2

(***************************************************************************)
(* Program constants: the validators of MovieRating.rating and             *)
(* EpisodeRating.rating.                                                   *)
(***************************************************************************)
MinRating == 1
MaxRating == 5

\* The first year of the yearly breakdowns: range(1990, current_year + 1).
FirstYear == 1990

Shows == 1..NumShows
Seasons == 1..NumSeasons
Episodes == 1..NumEpisodes
Movies == 1..NumMovies
Actors == 1..NumActors
Directors == 1..NumDirectors
RatingValues == MinRating..MaxRating
LastYear == FirstYear + MaxYears - 1
Years == FirstYear..LastYear

VARIABLES
    \* The Content Store.
    showOf,           \* Season.show: the show of each season
    seasonOf,         \* Episode.season: the season of each episode
    movieRatings,     \* MovieRating rows of each movie, in insertion order
    episodeRatings,   \* EpisodeRating rows of each episode, in insertion order
    actorName,        \* Actor.first_name, Actor.last_name
    directorName,     \* Director.first_name, Director.last_name
    movieActors,      \* Movie.actors
    movieDirectors,   \* Movie.directors
    episodeActors,    \* Episode.actors
    episodeDirectors, \* Episode.directors
    release_date,     \* Movie.release_date, in days since 1990-01-01
    air_date,         \* Episode.air_date, in days since 1990-01-01
    movieGenre,       \* Movie.genre
    showGenre,        \* TVShow.genre
    available,        \* whether the database answers the queries
    \* A read of a rating property of models.py.
    lastRead,         \* the rating property last read and what it returned
    instance,         \* a model instance loaded once, with its cached rating
    \* A call of _calculate_average_rating, of _calculate_rating_distribution
    \* or of _calculate_percentiles.
    ratings_data,     \* the list passed
    average_rating,   \* what _calculate_average_rating returned
    rating_distribution, \* what _calculate_rating_distribution returned
    performance_percentiles, \* what _calculate_percentiles returned
    \* A call of the template filter rating_stars.
    rating,           \* the value passed
    stars,            \* what the call returned
    \* A run of a report command (Command.handle).
    command,          \* which of the three commands runs
    limit,            \* the --limit option of the simple commands
    pc,               \* where the run is
    futures,          \* thread pool: the state of each actor's future
    results,          \* the per-actor records collected so far
    collaboration_data, \* advanced report: report['collaboration_network']
    trend_analysis,   \* advanced report: report['trend_analysis']
    printed,          \* the report sections written so far
    current_year,     \* datetime.now().year at the run
    queries,          \* advanced command: the queries issued for each actor
    cached_ratings,   \* advanced command: self.cached_ratings
    temporary_calculations, \* advanced command: self.temporary_calculations
    relationship_cache, \* advanced command: self.relationship_cache
    runNo,            \* the number of this run over the snapshot
    previous          \* the records the run before this one returned

ratingVars == <<showOf, seasonOf, movieRatings, episodeRatings>>
castVars == <<actorName, directorName, movieActors, movieDirectors,
              episodeActors, episodeDirectors, release_date, air_date,
              movieGenre, showGenre>>
storeVars == <<ratingVars, castVars>>
meanVars == <<ratings_data, average_rating, rating_distribution, performance_percentiles,
              rating, stars>>
cacheVars == <<cached_ratings, temporary_calculations, relationship_cache>>
queryVars == <<current_year, queries>>
runVars == <<command, limit, pc, futures, results, collaboration_data, trend_analysis, printed,
             runNo, previous>>

vars == <<storeVars, available, lastRead, instance, meanVars, cacheVars, queryVars,
          runVars>>

(***************************************************************************)
(* Values a rating property can return: None, the text "No ratings yet",   *)
(* or a number num/den in lowest terms.                                    *)
(***************************************************************************)
RECURSIVE GCD(_, _)
GCD(a, b) == IF b = 0 THEN a ELSE GCD(b, a % b)

None == [kind |-> "none", num |-> 0, den |-> 1]
NoRatingsYet == [kind |-> "text", num |-> 0, den |-> 1]
Num(n, d) == [kind |-> "num", num |-> n \div GCD(n, d), den |-> d \div GCD(n, d)]

RECURSIVE SumSeq(_)
SumSeq(s) == IF s = <<>> THEN 0 ELSE Head(s) + SumSeq(Tail(s))

(***************************************************************************)
(* SQL AVG over a column of values: NULLs are skipped, and the result is   *)
(* NULL when no non-NULL value is left.  vals is a sequence of values,     *)
(* each None or a number.                                                  *)
(***************************************************************************)
RECURSIVE AvgAcc(_, _, _, _)
AvgAcc(vals, n, d, cnt) ==
    IF vals = <<>>
    THEN IF cnt = 0 THEN None ELSE Num(n, d * cnt)
    ELSE IF Head(vals).kind = "num"
         THEN AvgAcc(Tail(vals), n * Head(vals).den + Head(vals).num * d,
                     d * Head(vals).den, cnt + 1)
         ELSE AvgAcc(Tail(vals), n, d, cnt)

Avg(vals) == AvgAcc(vals, 0, 1, 0)

\* Avg('rating') over rating rows (integers).
AvgRows(rows) == Avg([i \in 1..Len(rows) |-> Num(rows[i], 1)])

\* The elements of a finite set of integers as a sequence, ascending.
RECURSIVE SetToSeq(_)
SetToSeq(S) ==
    IF S = {} THEN <<>>
    ELSE LET m == CHOOSE x \in S : \A y \in S : x <= y
         IN <<m>> \o SetToSeq(S \ {m})

(***************************************************************************)
(* Movie.rating and Episode.rating (cached_property): "No ratings yet"     *)
(* when the item has no rating rows, else the average of its rows.         *)
(***************************************************************************)
Movie_rating(m) ==
    IF movieRatings[m] = <<>> THEN NoRatingsYet ELSE AvgRows(movieRatings[m])

Episode_rating(e) ==
    IF episodeRatings[e] = <<>> THEN NoRatingsYet ELSE AvgRows(episodeRatings[e])

(***************************************************************************)
(* episode_rating_subquery: EpisodeRating rows of the episode, grouped by  *)
(* episode and annotated with Avg('rating'), first row.  An episode with   *)
(* no rating rows gives no group, and the Subquery is NULL.                *)
(***************************************************************************)
episode_rating_subquery(e) == AvgRows(episodeRatings[e])

EpisodesOf(s) == {e \in Episodes : seasonOf[e] = s}
SeasonsOf(sh) == {s \in Seasons : showOf[s] = sh}

\* Python's `avg_rating == 0`: None is not equal to 0.
EqualsZero(v) == v.kind = "num" /\ v.num = 0

\* Season.rating with an unrated episode counted as 0 (`rating or 0` summed
\* over all episodes and divided by their number).
Season_rating_unrated_as_zero(s) ==
    LET eps == SetToSeq(EpisodesOf(s))
        zero_filled ==
            [i \in 1..Len(eps) |->
                IF episodeRatings[eps[i]] = <<>> THEN Num(0, 1)
                ELSE episode_rating_subquery(eps[i])]
        avg_rating == Avg(zero_filled)
    IN IF EqualsZero(avg_rating) THEN NoRatingsYet ELSE avg_rating

(***************************************************************************)
(* Season.rating: every episode of the season annotated with its average   *)
(* rating (NULL when unrated), then Avg over the annotation.               *)
(***************************************************************************)
Season_rating(s) ==
    LET eps == SetToSeq(EpisodesOf(s))
        episodes_with_ratings ==
            [i \in 1..Len(eps) |-> episode_rating_subquery(eps[i])]
        avg_rating == Avg(episodes_with_ratings)
    IN IF EqualsZero(avg_rating) THEN NoRatingsYet ELSE avg_rating

(***************************************************************************)
(* TVShow.rating.  episodes_with_ratings_subquery selects, for a season,   *)
(* its episodes annotated with their own average rating and keeps the      *)
(* first row ([:1]): values('season').annotate(Subquery) holds no          *)
(* aggregate, so the rows are not grouped.  The query has no ORDER BY and  *)
(* Episode has no default ordering, so which episode comes first is the    *)
(* database's choice: first[s] is that episode (0 for a season without     *)
(* episodes, whose Subquery is NULL).                                      *)
(***************************************************************************)
NoEpisode == 0

FirstRows ==
    {f \in [Seasons -> Episodes \cup {NoEpisode}] :
        \A s \in Seasons :
            IF EpisodesOf(s) = {} THEN f[s] = NoEpisode ELSE f[s] \in EpisodesOf(s)}

episodes_with_ratings_subquery(s, first) ==
    IF first[s] = NoEpisode THEN None ELSE episode_rating_subquery(first[s])

TVShow_rating(sh, first) ==
    LET ss == SetToSeq(SeasonsOf(sh))
        seasons_with_ratings ==
            [i \in 1..Len(ss) |-> episodes_with_ratings_subquery(ss[i], first)]
        avg_rating == Avg(seasons_with_ratings)
    IN IF EqualsZero(avg_rating) THEN NoRatingsYet ELSE avg_rating

(***************************************************************************)
(* The Content Store after ingestion, and the rating rows that arrive      *)
(* afterwards (append-only).                                               *)
(***************************************************************************)
NoRead == [op |-> "none", id |-> 0, result |-> None]

TotalRows ==
    SumSeq([m \in Movies |-> Len(movieRatings[m])])
    + SumSeq([e \in Episodes |-> Len(episodeRatings[e])])

\* Parts of the state a specification does not use.
NoName == [first_name |-> "", last_name |-> ""]
NotCalled == [kind |-> "not called", num |-> 0, den |-> 1]
NoRun == <<>>

NoCasts ==
    /\ actorName = [a \in Actors |-> NoName]
    /\ directorName = [d \in Directors |-> NoName]
    /\ movieActors = [m \in Movies |-> {}]
    /\ movieDirectors = [m \in Movies |-> {}]
    /\ episodeActors = [e \in Episodes |-> {}]
    /\ episodeDirectors = [e \in Episodes |-> {}]
    /\ release_date = [m \in Movies |-> 0]
    /\ air_date = [e \in Episodes |-> 0]
    /\ movieGenre = [m \in Movies |-> "DRAMA"]
    /\ showGenre = [sh \in Shows |-> "DRAMA"]

NoInstance == [model |-> "none", pk |-> 0, rating |-> NotCalled]

NoStars ==
    /\ rating = None
    /\ stars = <<>>

NoCall ==
    /\ ratings_data = <<>>
    /\ average_rating = NotCalled
    /\ rating_distribution = NotCalled
    /\ performance_percentiles = NotCalled
    /\ NoStars
    /\ instance = NoInstance

\* A Command object as created: handle has set no attribute yet.
NoAttribute == [hasattr |-> FALSE, dict |-> <<>>]

NoCaches ==
    /\ cached_ratings = <<>>
    /\ temporary_calculations = <<>>
    /\ relationship_cache = NoAttribute

NoCommand ==
    /\ available = TRUE
    /\ current_year = FirstYear
    /\ queries = <<>>
    /\ NoCaches
    /\ command = "none"
    /\ limit = 0
    /\ pc = "idle"
    /\ futures = <<>>
    /\ results = <<>>
    /\ collaboration_data = <<>>
    /\ trend_analysis = <<>>
    /\ printed = <<>>
    /\ runNo = 0
    /\ previous = NoRun

InitRating ==
    /\ showOf \in [Seasons -> Shows]
    /\ seasonOf \in [Episodes -> Seasons]
    /\ movieRatings = [m \in Movies |-> <<>>]
    /\ episodeRatings = [e \in Episodes |-> <<>>]
    /\ lastRead = NoRead
    /\ NoCasts
    /\ NoCall
    /\ NoCommand

AddMovieRating ==
    /\ TotalRows < MaxRatingRows
    /\ \E m \in Movies, r \in RatingValues :
           movieRatings' = [movieRatings EXCEPT ![m] = Append(@, r)]
    /\ lastRead' = NoRead
    /\ UNCHANGED <<showOf, seasonOf, episodeRatings, castVars, available, meanVars, cacheVars, instance, queryVars,
                   runVars>>

AddEpisodeRating ==
    /\ TotalRows < MaxRatingRows
    /\ \E e \in Episodes, r \in RatingValues :
           episodeRatings' = [episodeRatings EXCEPT ![e] = Append(@, r)]
    /\ lastRead' = NoRead
    /\ UNCHANGED <<showOf, seasonOf, movieRatings, castVars, available, meanVars, cacheVars, instance, queryVars,
                   runVars>>

ReadMovieRating ==
    /\ \E m \in Movies :
           lastRead' = [op |-> "movie", id |-> m, result |-> Movie_rating(m)]
    /\ UNCHANGED <<storeVars, available, meanVars, cacheVars, instance, queryVars, runVars>>

ReadEpisodeRating ==
    /\ \E e \in Episodes :
           lastRead' = [op |-> "episode", id |-> e, result |-> Episode_rating(e)]
    /\ UNCHANGED <<storeVars, available, meanVars, cacheVars, instance, queryVars, runVars>>

ReadSeasonRating ==
    /\ \E s \in Seasons :
           lastRead' = [op |-> "season", id |-> s, result |-> Season_rating(s)]
    /\ UNCHANGED <<storeVars, available, meanVars, cacheVars, instance, queryVars, runVars>>

ReadTVShowRating ==
    /\ \E sh \in Shows, first \in FirstRows :
           lastRead' = [op |-> "show", id |-> sh, result |-> TVShow_rating(sh, first)]
    /\ UNCHANGED <<storeVars, available, meanVars, cacheVars, instance, queryVars, runVars>>

NextRating ==
    \/ AddMovieRating
    \/ AddEpisodeRating
    \/ ReadMovieRating
    \/ ReadEpisodeRating
    \/ ReadSeasonRating
    \/ ReadTVShowRating

SpecRating == InitRating /\ [][NextRating]_vars

(***************************************************************************)
(* Command._calculate_average_rating, the same in the three commands (the  *)
(* sequential ones read rating.rating of each row, the thread pool one is  *)
(* handed the values): Decimal('0.00') for an empty list, else the sum of  *)
(* the values divided by their number.                                     *)
(***************************************************************************)
calculate_average_rating(rows) ==
    IF rows = <<>> THEN Num(0, 1) ELSE Num(SumSeq(rows), Len(rows))

\* The lists of at most n values of S.
BoundedSeq(S, n) == UNION {[1..k -> S] : k \in 0..n}

InitMean ==
    /\ ratings_data \in BoundedSeq(RatingValues, MaxListLen)
    /\ average_rating = NotCalled
    /\ rating_distribution = NotCalled
    /\ performance_percentiles = NotCalled
    /\ NoStars
    /\ instance = NoInstance
    /\ showOf = [s \in Seasons |-> 1]
    /\ seasonOf = [e \in Episodes |-> 1]
    /\ movieRatings = [m \in Movies |-> <<>>]
    /\ episodeRatings = [e \in Episodes |-> <<>>]
    /\ lastRead = NoRead
    /\ NoCasts
    /\ NoCommand

CallCalculateAverageRating ==
    /\ average_rating = NotCalled
    /\ average_rating' = calculate_average_rating(ratings_data)
    /\ UNCHANGED <<storeVars, available, lastRead, instance, ratings_data,
                   rating_distribution, performance_percentiles, rating, stars,
                   cacheVars, queryVars, runVars>>

NextMean == CallCalculateAverageRating

SpecMean == InitMean /\ [][NextMean]_vars

(***************************************************************************)
(* The queries of the report commands.  A query without ORDER BY is taken  *)
(* to return its rows in primary key order.                                *)
(***************************************************************************)
QueryRows(S) == SetToSeq(S)

\* The actors of a run: Actor.objects.all()[:limit] in the simple commands,
\* Actor.objects.all() in the advanced command.
all_actors ==
    IF command = "advanced" THEN QueryRows(Actors)
    ELSE QueryRows({a \in Actors : a <= limit})

\* actor.movies.all() and Episode.objects.filter(actors=actor).
actor_movies(a) == QueryRows({m \in Movies : a \in movieActors[m]})
actor_episodes(a) == QueryRows({e \in Episodes : a \in episodeActors[e]})

\* The rating rows of the items of a list, item after item
\* (MovieRating.objects.filter(movie=movie) for each movie of the list).
RECURSIVE RowsOf(_, _)
RowsOf(items, ratings) ==
    IF items = <<>> THEN <<>>
    ELSE ratings[Head(items)] \o RowsOf(Tail(items), ratings)

\* Person.full_name: Concat(first_name, " ", last_name).
full_name(p) == <<p.first_name, " ", p.last_name>>

\* f"Director: {director.full_name}"
director_key(p) == <<"Director: ">> \o full_name(p)

(***************************************************************************)
(* A Python dict, as the sequence of its (key, value) items in insertion   *)
(* order.  Increment is `d[key] += 1` on a defaultdict(int).               *)
(***************************************************************************)
HasKey(d, k) == \E i \in 1..Len(d) : d[i].key = k

Get(d, k, default) ==
    IF HasKey(d, k) THEN d[CHOOSE i \in 1..Len(d) : d[i].key = k].count
    ELSE default

Increment(d, k) ==
    IF HasKey(d, k)
    THEN [i \in 1..Len(d) |->
             IF d[i].key = k THEN [key |-> k, count |-> d[i].count + 1] ELSE d[i]]
    ELSE Append(d, [key |-> k, count |-> 1])

RECURSIVE IncrementAll(_, _)
IncrementAll(d, keys) ==
    IF keys = <<>> THEN d
    ELSE IncrementAll(Increment(d, Head(keys)), Tail(keys))

(***************************************************************************)
(* Command._find_collaborations, the same in the two simple commands: for  *)
(* each movie, then each episode, of the actor, one count under the full   *)
(* name of every other actor of the cast and one under "Director: " and    *)
(* the full name of every director.                                        *)
(***************************************************************************)
\* The keys one movie or episode adds: movie.actors.exclude(id=actor.id),
\* then movie.directors.all().
cast_keys(a, cast, crew) ==
    LET other_actors == QueryRows(cast \ {a})
        directors == QueryRows(crew)
    IN [i \in 1..Len(other_actors) |-> full_name(actorName[other_actors[i]])]
       \o [i \in 1..Len(directors) |-> director_key(directorName[directors[i]])]

RECURSIVE collaborator_keys(_, _, _, _)
collaborator_keys(a, items, casts, crews) ==
    IF items = <<>> THEN <<>>
    ELSE cast_keys(a, casts[Head(items)], crews[Head(items)])
         \o collaborator_keys(a, Tail(items), casts, crews)

find_collaborations(a, movies, episodes) ==
    IncrementAll(<<>>,
        collaborator_keys(a, movies, movieActors, movieDirectors)
        \o collaborator_keys(a, episodes, episodeActors, episodeDirectors))

(***************************************************************************)
(* Command._calculate_rating_distribution: distribution starts as          *)
(* {1: 0, 2: 0, 3: 0, 4: 0, 5: 0} and the loop adds 1 under each rating of *)
(* the list.  A rating that is no key of the dict raises KeyError.         *)
(***************************************************************************)
RECURSIVE distribution_loop(_, _)
distribution_loop(distribution, rows) ==
    IF rows = <<>> THEN distribution
    ELSE distribution_loop([distribution EXCEPT ![Head(rows)] = @ + 1], Tail(rows))

\* The function, were the loop to mark the ratings met instead of counting
\* them (distribution[rating] = 1).
calculate_rating_distribution_marking(rows) ==
    [r \in RatingValues |-> IF \E i \in 1..Len(rows) : rows[i] = r THEN 1 ELSE 0]

calculate_rating_distribution(rows) ==
    distribution_loop([r \in RatingValues |-> 0], rows)

rating_distribution_raises(rows) ==
    \E i \in 1..Len(rows) : rows[i] \notin RatingValues

(***************************************************************************)
(* Command._calculate_career_metrics (simple commands): career_span_days   *)
(* and career_span_years = days / 365.25 are set only when the actor has a *)
(* movie or an episode.  Absent stands for a key the dict does not hold.   *)
(***************************************************************************)
Absent == [kind |-> "absent", num |-> 0, den |-> 1]

MaxOf(S) == CHOOSE x \in S : \A y \in S : y <= x
MinOf(S) == CHOOSE x \in S : \A y \in S : x <= y

SeqRange(s) == {s[i] : i \in 1..Len(s)}

content_dates(movies, episodes) ==
    {release_date[m] : m \in SeqRange(movies)} \cup {air_date[e] : e \in SeqRange(episodes)}

calculate_career_metrics(movies, episodes) ==
    LET all_dates == content_dates(movies, episodes)
    IN IF all_dates = {}
       THEN [career_span_days |-> Absent, career_span_years |-> Absent]
       ELSE LET career_span == MaxOf(all_dates) - MinOf(all_dates)
            IN [career_span_days |-> Num(career_span, 1),
                career_span_years |-> Num(career_span * 4, 1461)]

(***************************************************************************)
(* Command._calculate_career_span (advanced command): whole years,         *)
(* (max - min).days // 365, and 0 without dates.                           *)
(***************************************************************************)
calculate_career_span(a) ==
    LET dates == content_dates(actor_movies(a), actor_episodes(a))
    IN IF dates = {} THEN 0 ELSE (MaxOf(dates) - MinOf(dates)) \div 365

(***************************************************************************)
(* Command._analyze_actor_genres: genre_data, a defaultdict keyed by the   *)
(* genre, held as the sequence of its items in insertion order.  The       *)
(* sequential command keeps each genre's rating rows and sets avg_rating   *)
(* from them; the thread-pool command keeps the two counts only, so its    *)
(* items have no avg_rating (Absent).                                      *)
(***************************************************************************)
episode_show_genre(e) == showGenre[showOf[seasonOf[e]]]

NewGenre(g) == [key |-> g, movies |-> 0, episodes |-> 0, ratings |-> <<>>,
                avg_rating |-> Absent]

\* genre_data[g], made by the defaultdict when g is no key yet.
Touch(genre_data, g) ==
    IF \E i \in 1..Len(genre_data) : genre_data[i].key = g THEN genre_data
    ELSE Append(genre_data, NewGenre(g))

RECURSIVE genres_of_movies(_, _, _)
genres_of_movies(genre_data, movies, keep_ratings) ==
    IF movies = <<>> THEN genre_data
    ELSE LET genre == movieGenre[Head(movies)]
             d == Touch(genre_data, genre)
         IN genres_of_movies(
                [i \in 1..Len(d) |->
                    IF d[i].key = genre
                    THEN [d[i] EXCEPT !.movies = @ + 1,
                                      !.ratings = IF keep_ratings
                                                  THEN @ \o movieRatings[Head(movies)]
                                                  ELSE @]
                    ELSE d[i]],
                Tail(movies), keep_ratings)

RECURSIVE genres_of_episodes(_, _, _)
genres_of_episodes(genre_data, episodes, keep_ratings) ==
    IF episodes = <<>> THEN genre_data
    ELSE LET show_genre == episode_show_genre(Head(episodes))
             d == Touch(genre_data, show_genre)
         IN genres_of_episodes(
                [i \in 1..Len(d) |->
                    IF d[i].key = show_genre
                    THEN [d[i] EXCEPT !.episodes = @ + 1,
                                      !.ratings = IF keep_ratings
                                                  THEN @ \o episodeRatings[Head(episodes)]
                                                  ELSE @]
                    ELSE d[i]],
                Tail(episodes), keep_ratings)

simple_actor_analyze_actor_genres(movies, episodes) ==
    LET genre_data == genres_of_episodes(genres_of_movies(<<>>, movies, TRUE),
                                         episodes, TRUE)
    IN [i \in 1..Len(genre_data) |->
           [genre_data[i] EXCEPT
               !.avg_rating = calculate_average_rating(genre_data[i].ratings)]]

simple_actors_analyze_actor_genres(movies, episodes) ==
    genres_of_episodes(genres_of_movies(<<>>, movies, FALSE), episodes, FALSE)

(***************************************************************************)
(* Command._analyze_single_actor of get_simple_actor_performance_report    *)
(* (sequential): the record it returns.                                    *)
(***************************************************************************)
simple_actor_analyze_single_actor(a) ==
    LET movies == actor_movies(a)
        movie_ratings_data == RowsOf(movies, movieRatings)
        episodes == actor_episodes(a)
        episode_ratings_data == RowsOf(episodes, episodeRatings)
    IN [actor_id |-> a,
        name |-> full_name(actorName[a]),
        total_movies |-> Len(movies),
        total_episodes |-> Len(episodes),
        movie_avg_rating |-> calculate_average_rating(movie_ratings_data),
        episode_avg_rating |-> calculate_average_rating(episode_ratings_data),
        overall_avg_rating |->
            calculate_average_rating(movie_ratings_data \o episode_ratings_data),
        genre_breakdown |-> simple_actor_analyze_actor_genres(movies, episodes),
        collaborations |-> find_collaborations(a, movies, episodes),
        rating_distribution |->
            calculate_rating_distribution(movie_ratings_data \o episode_ratings_data),
        career_metrics |-> calculate_career_metrics(movies, episodes)]

(***************************************************************************)
(* Command._analyze_single_actor of get_simple_actors_performance_report   *)
(* (thread pool): the two averages come from the database's Avg, which is  *)
(* None over no rows; the overall average from _calculate_average_rating.  *)
(***************************************************************************)
simple_actors_analyze_single_actor(a) ==
    LET movies == actor_movies(a)
        movie_ratings_data == RowsOf(movies, movieRatings)
        movie_avg == AvgRows(movie_ratings_data)
        episodes == actor_episodes(a)
        episode_ratings_data == RowsOf(episodes, episodeRatings)
        episode_avg == AvgRows(episode_ratings_data)
        all_rating_values == movie_ratings_data \o episode_ratings_data
    IN [actor_id |-> a,
        name |-> full_name(actorName[a]),
        total_movies |-> Len(movies),
        total_episodes |-> Len(episodes),
        movie_avg_rating |-> movie_avg,
        episode_avg_rating |-> episode_avg,
        overall_avg_rating |-> calculate_average_rating(all_rating_values),
        genre_breakdown |-> simple_actors_analyze_actor_genres(movies, episodes),
        collaborations |-> find_collaborations(a, movies, episodes),
        rating_distribution |-> calculate_rating_distribution(all_rating_values),
        career_metrics |-> calculate_career_metrics(movies, episodes)]

\* _analyze_single_actor of the simple commands raises (KeyError in
\* _calculate_rating_distribution) on a rating outside 1..5.
simple_analysis_raises(a) ==
    rating_distribution_raises(
        RowsOf(actor_movies(a), movieRatings) \o RowsOf(actor_episodes(a), episodeRatings))

(***************************************************************************)
(* The year of a date (release_date__year, air_date__year).  Dates are     *)
(* days counted from 1 January of FirstYear, in the Gregorian calendar.    *)
(***************************************************************************)
IsLeapYear(y) == (y % 4 = 0 /\ y % 100 # 0) \/ y % 400 = 0

DaysIn(y) == IF IsLeapYear(y) THEN 366 ELSE 365

RECURSIVE YearFrom(_, _)
YearFrom(y, d) ==
    IF d < 0 THEN YearFrom(y - 1, d + DaysIn(y - 1))
    ELSE IF d >= DaysIn(y) THEN YearFrom(y + 1, d - DaysIn(y))
         ELSE y

YearOf(d) == YearFrom(FirstYear, d)

\* range(1990, current_year + 1)
YearRange == FirstYear..current_year

(***************************************************************************)
(* The yearly breakdown of Command._analyze_single_actor (advanced         *)
(* command): for each year of range(1990, current_year + 1), the actor's   *)
(* movies released and episodes aired in the year and their number         *)
(* (total_projects).  Command._get_yearly_project_counts keeps the number  *)
(* alone, over the same years.                                             *)
(***************************************************************************)
yearly_movies(a, year) ==
    QueryRows({m \in Movies : a \in movieActors[m] /\ YearOf(release_date[m]) = year})

yearly_episodes(a, year) ==
    QueryRows({e \in Episodes : a \in episodeActors[e] /\ YearOf(air_date[e]) = year})

yearly_breakdown(a) ==
    [year \in YearRange |->
        [movies |-> yearly_movies(a, year),
         episodes |-> yearly_episodes(a, year),
         total_projects |-> Len(yearly_movies(a, year)) + Len(yearly_episodes(a, year))]]

get_yearly_project_counts(a) ==
    [year \in YearRange |-> Len(yearly_movies(a, year)) + Len(yearly_episodes(a, year))]

(***************************************************************************)
(* Command._analyze_single_actor of get_advanced_actor_performance_report: *)
(* the actor_summary it returns (genre_diversity and statistical_analysis  *)
(* left out, and of detailed_performance the yearly breakdown kept).       *)
(***************************************************************************)
advanced_analyze_single_actor(a) ==
    LET movies == actor_movies(a)
        movie_ratings == RowsOf(movies, movieRatings)
        tv_episodes == actor_episodes(a)
        episode_ratings == RowsOf(tv_episodes, episodeRatings)
    IN [id |-> a,
        name |-> full_name(actorName[a]),
        total_movies |-> Len(movies),
        total_tv_episodes |-> Len(tv_episodes),
        avg_movie_rating |-> calculate_average_rating(movie_ratings),
        avg_tv_rating |-> calculate_average_rating(episode_ratings),
        career_span_years |-> calculate_career_span(a),
        detailed_performance |-> [yearly_breakdown |-> yearly_breakdown(a)]]

(***************************************************************************)
(* Command._percentile and Command._calculate_percentiles (advanced        *)
(* command).  _percentile returns data[int(size * percentile / 100)], and  *)
(* 0.0 for an empty list; an index outside the list is Python's            *)
(* IndexError.  _calculate_percentiles returns {} for an empty list, else  *)
(* the four percentiles of the sorted ratings, as a dictionary held as the *)
(* sequence of its items.                                                  *)
(***************************************************************************)
\* The index, were the quotient rounded up.
percentile_index_rounded_up(size, p) == (size * p + 99) \div 100

percentile_index(size, p) == (size * p) \div 100

percentile_raises(data, p) ==
    data # <<>> /\ percentile_index(Len(data), p) \notin 0..(Len(data) - 1)

percentile(data, p) ==
    IF data = <<>> THEN 0 ELSE data[percentile_index(Len(data), p) + 1]

\* sorted(list) of integers.
RECURSIVE InsertAsc(_, _)
InsertAsc(s, x) ==
    IF s = <<>> THEN <<x>>
    ELSE IF x < Head(s) THEN <<x>> \o s
         ELSE <<Head(s)>> \o InsertAsc(Tail(s), x)

RECURSIVE SortedAsc(_)
SortedAsc(s) == IF s = <<>> THEN <<>> ELSE InsertAsc(SortedAsc(Tail(s)), Head(s))

Percentiles ==
    <<[key |-> "25th_percentile", p |-> 25], [key |-> "50th_percentile", p |-> 50],
      [key |-> "75th_percentile", p |-> 75], [key |-> "90th_percentile", p |-> 90]>>

IndexError == [kind |-> "IndexError", value |-> <<>>]
KeyError == [kind |-> "KeyError", value |-> <<>>]
Returned(v) == [kind |-> "returned", value |-> v]

calculate_percentiles(data) ==
    IF data = <<>> THEN Returned(<<>>)
    ELSE LET ratings == SortedAsc([i \in 1..Len(data) |-> data[i].rating])
         IN IF \E i \in 1..Len(Percentiles) : percentile_raises(ratings, Percentiles[i].p)
            THEN IndexError
            ELSE Returned([i \in 1..Len(Percentiles) |->
                              [key |-> Percentiles[i].key,
                               value |-> percentile(ratings, Percentiles[i].p)]])

(***************************************************************************)
(* The entries the advanced command keeps on self for an actor.            *)
(* SetItem is d[key] = value.  actor_ratings is the value of               *)
(* self.cached_ratings[actor.id] (last_calculated left out);               *)
(* calculate_detailed_statistics is that of                                *)
(* self.temporary_calculations[f'stats_{actor.id}'], of which              *)
(* performance_percentiles is kept; cache_actor_relationships is           *)
(* Command._cache_actor_relationships, which creates                       *)
(* self.relationship_cache when the object has no such attribute           *)
(* (cached_at left out).                                                   *)
(***************************************************************************)
SetItem(d, k, v) ==
    IF \E i \in 1..Len(d) : d[i].key = k
    THEN [i \in 1..Len(d) |-> IF d[i].key = k THEN [key |-> k, value |-> v] ELSE d[i]]
    ELSE Append(d, [key |-> k, value |-> v])

actor_ratings(a) ==
    [movie_ratings |-> RowsOf(actor_movies(a), movieRatings),
     episode_ratings |-> RowsOf(actor_episodes(a), episodeRatings)]

RECURSIVE RatingDataOf(_, _, _, _)
RatingDataOf(items, ratings, type, dates) ==
    IF items = <<>> THEN <<>>
    ELSE [i \in 1..Len(ratings[Head(items)]) |->
             [rating |-> ratings[Head(items)][i], type |-> type,
              content_id |-> Head(items), date |-> dates[Head(items)]]]
         \o RatingDataOf(Tail(items), ratings, type, dates)

stats_key(a) == <<"stats_", a>>

calculate_detailed_statistics(a) ==
    LET all_ratings_data ==
            RatingDataOf(actor_movies(a), movieRatings, "movie", release_date)
            \o RatingDataOf(actor_episodes(a), episodeRatings, "episode", air_date)
    IN [performance_percentiles |-> calculate_percentiles(all_ratings_data).value]

cache_actor_relationships(cache, a) ==
    LET dict == IF cache.hasattr THEN cache.dict ELSE <<>>
    IN [hasattr |-> TRUE,
        dict |-> SetItem(dict, a,
                    [movies |-> actor_movies(a),
                     tv_episodes |-> actor_episodes(a),
                     directors_worked_with |->
                         UNION {movieDirectors[m] : m \in SeqRange(actor_movies(a))}])]

(***************************************************************************)
(* Command._analyze_actor_pair_collaboration (advanced command).           *)
(*                                                                         *)
(* shared_movies = actor1.movies.filter(actors=actor2).  actor1.movies is  *)
(* a many-to-many related manager: its queryset is built by                *)
(* _next_is_sticky().filter(actors=actor1), which makes the manager's own  *)
(* filter and the next filter() one filter as far as join reuse goes.  The *)
(* condition actors=actor2 therefore lands on the same row t of the        *)
(* movie_actors table as actors=actor1: WHERE t.actor_id = actor1 AND      *)
(* t.actor_id = actor2.                                                    *)
(*                                                                         *)
(* shared_episodes = Episode.objects.filter(actors=actor1)                 *)
(* .filter(actors=actor2) is two filter() calls on a plain manager: each   *)
(* joins episode_actors anew, rows t and u.                                *)
(***************************************************************************)
shared_movies(actor1, actor2) ==
    {m \in Movies : \E t \in movieActors[m] : t = actor1 /\ t = actor2}

shared_episodes(actor1, actor2) ==
    {e \in Episodes :
        /\ \E t \in episodeActors[e] : t = actor1
        /\ \E u \in episodeActors[e] : u = actor2}

analyze_actor_pair_collaboration(actor1, actor2) ==
    [collaborations |->
         Cardinality(shared_movies(actor1, actor2))
         + Cardinality(shared_episodes(actor1, actor2)),
     shared_movies |-> QueryRows(shared_movies(actor1, actor2)),
     shared_episodes |-> QueryRows(shared_episodes(actor1, actor2))]

(***************************************************************************)
(* Command._analyze_collaboration_network: actor_pairs, a dict keyed by    *)
(* f"{actor1.id}_{actor2.id}" for each actor1 of the list and each actor2  *)
(* after it, kept when the pair has a collaboration.  The key is held as   *)
(* the pair of ids.                                                        *)
(***************************************************************************)
RECURSIVE pairs_after(_, _, _)
pairs_after(actors, i, j) ==
    IF i > Len(actors) THEN <<>>
    ELSE IF j > Len(actors) THEN pairs_after(actors, i + 1, i + 2)
    ELSE LET collaboration_info ==
                 analyze_actor_pair_collaboration(actors[i], actors[j])
         IN (IF collaboration_info.collaborations > 0
             THEN <<[key |-> <<actors[i], actors[j]>>,
                     collaborations |-> collaboration_info.collaborations]>>
             ELSE <<>>)
            \o pairs_after(actors, i, j + 1)

analyze_collaboration_network(actors) ==
    [actor_pairs |-> pairs_after(actors, 1, 2)]

(***************************************************************************)
(* Command._calculate_individual_career_trend (advanced command):          *)
(* career_span is (latest - first).days / 365.25 over the release dates of *)
(* the actor's movies, and 0 for an actor without movies.                  *)
(* Command._analyze_career_trends keeps one such entry per actor id.       *)
(***************************************************************************)
calculate_individual_career_trend(a) ==
    LET dates == {release_date[m] : m \in SeqRange(actor_movies(a))}
    IN [career_span |->
            IF dates # {} THEN Num((MaxOf(dates) - MinOf(dates)) * 4, 1461)
            ELSE Num(0, 1),
        yearly_project_count |-> get_yearly_project_counts(a)]

analyze_career_trends(actors) ==
    [individual_career_arcs |->
        [a \in SeqRange(actors) |-> calculate_individual_career_trend(a)]]

(***************************************************************************)
(* The database queries a call issues, counted by what makes their number: *)
(* fixed (a constant number per actor), per_item (one per movie or episode *)
(* of the actor), per_rating (one per rating row), per_genre (one per      *)
(* member of GenreChoices), per_year (one per year of 1990..current_year). *)
(***************************************************************************)
GenreChoices ==
    {"ACTION", "ADVENTURE", "ANIMATION", "COMEDY", "CRIME", "DOCUMENTARY", "DRAMA",
     "FAMILY", "FANTASY", "HISTORY", "HORROR", "KIDS", "MYSTERY", "NEWS", "REALITY",
     "ROMANCE", "SCI_FI", "SOAP", "TALK", "THRILLER", "WAR", "WESTERN"}

AddQueries(q, r) ==
    [fixed |-> q.fixed + r.fixed, per_item |-> q.per_item + r.per_item,
     per_rating |-> q.per_rating + r.per_rating,
     per_genre |-> q.per_genre + r.per_genre, per_year |-> q.per_year + r.per_year]

(***************************************************************************)
(* Command._analyze_single_actor of the advanced command:                  *)
(*   actor.movies.all() and Episode.objects.filter(actors=actor): 2 fixed; *)
(*   the ratings of each movie and of each episode: 1 per item;            *)
(*   for each genre of GenreChoices: list(genre_movies.values()),          *)
(*   list(genre_episodes.values()) and, in _get_detailed_ratings, the two  *)
(*   loops over them: 4 per genre, and there the ratings of each movie and *)
(*   episode of the genre: 1 per item in all;                              *)
(*   for each year: list(yearly_movies), list(yearly_episodes) and the two *)
(*   count(): 4 per year;                                                  *)
(*   _calculate_detailed_statistics: rating.movie / rating.episode of each *)
(*   rating row: 1 per rating;                                             *)
(*   _calculate_career_span: 4 fixed.                                      *)
(***************************************************************************)
analyze_single_actor_queries(a) ==
    LET items == Len(actor_movies(a)) + Len(actor_episodes(a))
        rows == Len(RowsOf(actor_movies(a), movieRatings))
                + Len(RowsOf(actor_episodes(a), episodeRatings))
    IN [fixed |-> 2 + 4,
        per_item |-> items + items,
        per_rating |-> rows,
        per_genre |-> 4 * Cardinality(GenreChoices),
        per_year |-> 4 * Cardinality(YearRange)]

\* Command._calculate_individual_career_trend: the first and the latest
\* movie, and in _get_yearly_project_counts two count() per year.
career_trend_queries ==
    [fixed |-> 2, per_item |-> 0, per_rating |-> 0, per_genre |-> 0,
     per_year |-> 2 * Cardinality(YearRange)]

(***************************************************************************)
(* _generate_report of the simple commands, for one record.  The three     *)
(* averages are formatted with :.2f, which raises TypeError on None.       *)
(* top_collabs = sorted(items, key=count, reverse=True)[:5]: the sort is   *)
(* stable, so items of equal count keep the dict's insertion order.        *)
(***************************************************************************)
TopCount == 5

format_2f_raises(v) == v.kind # "num"

\* The item x put into a list sorted by count descending, after the items
\* whose count is not below its own.
InsertDesc(sorted, x) ==
    LET k == Cardinality({i \in 1..Len(sorted) : sorted[i].count >= x.count})
    IN SubSeq(sorted, 1, k) \o <<x>> \o SubSeq(sorted, k + 1, Len(sorted))

RECURSIVE SortedDescAcc(_, _)
SortedDescAcc(items, sorted) ==
    IF items = <<>> THEN sorted
    ELSE SortedDescAcc(Tail(items), InsertDesc(sorted, Head(items)))

top_collabs(collaborations) ==
    LET sorted == SortedDescAcc(collaborations, <<>>)
    IN SubSeq(sorted, 1, IF Len(sorted) < TopCount THEN Len(sorted) ELSE TopCount)

report_raises(actor_data) ==
    \/ format_2f_raises(actor_data.movie_avg_rating)
    \/ format_2f_raises(actor_data.episode_avg_rating)
    \/ format_2f_raises(actor_data.overall_avg_rating)

\* The "Genre Breakdown" lines: one per genre with a movie or an episode,
\* with avg_rating = data.get('avg_rating', 0).
RECURSIVE genre_lines(_)
genre_lines(genre_breakdown) ==
    IF genre_breakdown = <<>> THEN <<>>
    ELSE LET data == Head(genre_breakdown)
         IN (IF data.movies > 0 \/ data.episodes > 0
             THEN <<[genre |-> data.key, movies |-> data.movies,
                     episodes |-> data.episodes,
                     avg_rating |-> IF data.avg_rating = Absent THEN Num(0, 1)
                                    ELSE data.avg_rating]>>
             ELSE <<>>)
            \o genre_lines(Tail(genre_breakdown))

report_section(actor_data) ==
    [actor_id |-> actor_data.actor_id,
     genre_lines |-> genre_lines(actor_data.genre_breakdown),
     top_collabs |-> top_collabs(actor_data.collaborations)]

\* _write_report_to_file of the advanced command, for one record: the
\* values are written with str(), which does not raise.
report_entry(actor_data) ==
    [name |-> actor_data.name,
     total_movies |-> actor_data.total_movies,
     total_tv_episodes |-> actor_data.total_tv_episodes,
     avg_movie_rating |-> actor_data.avg_movie_rating,
     avg_tv_rating |-> actor_data.avg_tv_rating,
     career_span_years |-> actor_data.career_span_years]

(***************************************************************************)
(* A run of a report command: Command.handle.                              *)
(*   simple_actor   get_simple_actor_performance_report  (sequential)      *)
(*   simple_actors  get_simple_actors_performance_report (thread pool)     *)
(*   advanced       get_advanced_actor_performance_report                  *)
(* pc: "analyze" (the per-actor analyses), "network" (advanced: the        *)
(* collaboration network), "report" (the report is written), "done",       *)
(* "raised" (an exception left handle); "trends" (advanced: the career     *)
(* trends, after the network).                                             *)
(***************************************************************************)
Commands == {"simple_actor", "simple_actors", "advanced"}

max_workers == 5

StartOfRun ==
    /\ pc = "analyze"
    /\ futures = [a \in SeqRange(all_actors) |-> "pending"]
    /\ results = <<>>
    /\ collaboration_data = <<>>
    /\ trend_analysis = <<>>
    /\ printed = <<>>

\* _analyze_all_actors of simple_actor: the actors one after the other;
\* an exception of an analysis leaves the loop and handle.
AnalyzeNextActor ==
    /\ command = "simple_actor"
    /\ pc = "analyze"
    /\ LET actor == all_actors[Len(results) + 1]
       IN IF ~available \/ simple_analysis_raises(actor)
          THEN /\ pc' = "raised"
               /\ UNCHANGED results
          ELSE /\ results' = Append(results, simple_actor_analyze_single_actor(actor))
               /\ pc' = IF Len(results) + 1 = Len(all_actors) THEN "report" ELSE "analyze"
    /\ UNCHANGED <<storeVars, available, lastRead, meanVars, cacheVars, instance, queryVars, command, limit, futures,
                   collaboration_data, trend_analysis, printed, runNo, previous>>

(***************************************************************************)
(* _analyze_all_actors of simple_actors: every actor's analysis is         *)
(* submitted to a ThreadPoolExecutor(max_workers=5).  The pool's workers   *)
(* take the submitted analyses in order; an analysis ends at any time,     *)
(* with its record or, when a query fails or the analysis raises, with an  *)
(* exception; as_completed hands the ended futures to the loop, which      *)
(* appends the record ("yielded") or prints the exception ("reported").    *)
(***************************************************************************)
\* The pool, were it to start a thread for every submitted analysis.
PoolStart_unbounded ==
    /\ command = "simple_actors"
    /\ pc = "analyze"
    /\ \E a \in DOMAIN futures :
           /\ futures[a] = "pending"
           /\ \A b \in DOMAIN futures : b < a => futures[b] # "pending"
           /\ futures' = [futures EXCEPT ![a] = "running"]
    /\ UNCHANGED <<storeVars, available, lastRead, meanVars, cacheVars, instance, queryVars, command, limit,
                   pc, results, collaboration_data, trend_analysis, printed, runNo,
                   previous>>

PoolStart ==
    /\ command = "simple_actors"
    /\ pc = "analyze"
    /\ Cardinality({b \in DOMAIN futures : futures[b] = "running"}) < max_workers
    /\ \E a \in DOMAIN futures :
           /\ futures[a] = "pending"
           /\ \A b \in DOMAIN futures : b < a => futures[b] # "pending"
           /\ futures' = [futures EXCEPT ![a] = "running"]
    /\ UNCHANGED <<storeVars, available, lastRead, meanVars, cacheVars, instance, queryVars, command, limit, pc, results,
                   collaboration_data, trend_analysis, printed, runNo, previous>>

PoolFinish ==
    /\ command = "simple_actors"
    /\ pc = "analyze"
    /\ \E a \in DOMAIN futures :
           /\ futures[a] = "running"
           /\ futures' = [futures EXCEPT ![a] =
                  IF ~available \/ simple_analysis_raises(a) THEN "failed"
                  ELSE "finished"]
    /\ UNCHANGED <<storeVars, available, lastRead, meanVars, cacheVars, instance, queryVars, command, limit, pc, results,
                   collaboration_data, trend_analysis, printed, runNo, previous>>

\* The loop, were the workers to leave their record in one shared slot that
\* the ended analysis of the smallest actor id overwrites.
PoolCollect_shared_slot ==
    /\ command = "simple_actors"
    /\ pc = "analyze"
    /\ \E a \in DOMAIN futures :
           /\ futures[a] \in {"finished", "failed"}
           /\ futures' = [futures EXCEPT ![a] =
                  IF futures[a] = "failed" THEN "reported" ELSE "yielded"]
           /\ LET slot == MinOf({b \in DOMAIN futures :
                                    futures[b] \in {"finished", "failed"}})
              IN results' = IF futures[a] = "failed" THEN results
                            ELSE Append(results, simple_actors_analyze_single_actor(slot))
           /\ pc' = IF \A b \in DOMAIN futures \ {a} :
                            futures[b] \in {"yielded", "reported"}
                    THEN "report" ELSE "analyze"
    /\ UNCHANGED <<storeVars, available, lastRead, meanVars, cacheVars, instance, queryVars, command, limit,
                   collaboration_data, trend_analysis, printed, runNo, previous>>

\* The loop, were it to submit a failed analysis again.
PoolCollect_retrying ==
    /\ command = "simple_actors"
    /\ pc = "analyze"
    /\ \E a \in DOMAIN futures :
           /\ futures[a] \in {"finished", "failed"}
           /\ futures' = [futures EXCEPT ![a] =
                  IF futures[a] = "failed" THEN "running" ELSE "yielded"]
           /\ results' = IF futures[a] = "failed" THEN results
                         ELSE Append(results, simple_actors_analyze_single_actor(a))
           /\ pc' = IF /\ futures[a] = "finished"
                       /\ \A b \in DOMAIN futures \ {a} :
                              futures[b] \in {"yielded", "reported"}
                    THEN "report" ELSE "analyze"
    /\ UNCHANGED <<storeVars, available, lastRead, meanVars, cacheVars, instance, queryVars, command, limit,
                   collaboration_data, trend_analysis, printed, runNo, previous>>

PoolCollect ==
    /\ command = "simple_actors"
    /\ pc = "analyze"
    /\ \E a \in DOMAIN futures :
           /\ futures[a] \in {"finished", "failed"}
           /\ futures' = [futures EXCEPT ![a] =
                  IF futures[a] = "failed" THEN "reported" ELSE "yielded"]
           /\ results' = IF futures[a] = "failed" THEN results
                         ELSE Append(results, simple_actors_analyze_single_actor(a))
           /\ pc' = IF \A b \in DOMAIN futures \ {a} :
                            futures[b] \in {"yielded", "reported"}
                    THEN "report" ELSE "analyze"
    /\ UNCHANGED <<storeVars, available, lastRead, meanVars, cacheVars, instance, queryVars, command, limit,
                   collaboration_data, trend_analysis, printed, runNo, previous>>

\* _generate_report of the simple commands: the next record's section; the
\* run is over after the last one, or when there are no results.
ReportNextActor ==
    /\ command \in {"simple_actor", "simple_actors"}
    /\ pc = "report"
    /\ IF results = <<>>
       THEN /\ pc' = "done"
            /\ UNCHANGED printed
       ELSE LET actor_data == results[Len(printed) + 1]
            IN IF report_raises(actor_data)
               THEN /\ pc' = "raised"
                    /\ UNCHANGED printed
               ELSE /\ printed' = Append(printed, report_section(actor_data))
                    /\ pc' = IF Len(printed) + 1 = Len(results) THEN "done" ELSE "report"
    /\ UNCHANGED <<storeVars, available, lastRead, meanVars, cacheVars, instance, queryVars, command, limit, futures, results,
                   collaboration_data, trend_analysis, runNo, previous>>

\* The same step, were _cache_actor_relationships to start from an empty
\* dictionary at every call.
AdvancedProcessActor_fresh_cache ==
    /\ command = "advanced"
    /\ pc = "analyze"
    /\ LET actor == all_actors[Len(results) + 1]
       IN IF ~available
          THEN /\ pc' = "raised"
               /\ UNCHANGED <<results, queries, cacheVars>>
          ELSE /\ results' = Append(results, advanced_analyze_single_actor(actor))
               /\ queries' = Append(queries, analyze_single_actor_queries(actor))
               /\ cached_ratings' = SetItem(cached_ratings, actor, actor_ratings(actor))
               /\ temporary_calculations' =
                      SetItem(temporary_calculations, stats_key(actor),
                              calculate_detailed_statistics(actor))
               /\ relationship_cache' = cache_actor_relationships(NoAttribute, actor)
               /\ pc' = IF Len(results) + 1 = Len(all_actors) THEN "network"
                        ELSE "analyze"
    /\ UNCHANGED <<storeVars, available, lastRead, meanVars, instance, current_year, command,
                   limit, futures, collaboration_data, trend_analysis, printed,
                   runNo, previous>>

(***************************************************************************)
(* _generate_comprehensive_report of advanced: one turn of the loop over   *)
(* the actors.  _analyze_single_actor sets the actor's entry of            *)
(* self.temporary_calculations (in _calculate_detailed_statistics) and of  *)
(* self.cached_ratings, the loop appends the summary to                    *)
(* self.all_actor_data (results) and _cache_actor_relationships sets the   *)
(* actor's entry of self.relationship_cache.                               *)
(***************************************************************************)
AdvancedProcessActor ==
    /\ command = "advanced"
    /\ pc = "analyze"
    /\ LET actor == all_actors[Len(results) + 1]
       IN IF ~available
          THEN /\ pc' = "raised"
               /\ UNCHANGED <<results, queries, cacheVars>>
          ELSE /\ results' = Append(results, advanced_analyze_single_actor(actor))
               /\ queries' = Append(queries, analyze_single_actor_queries(actor))
               /\ cached_ratings' = SetItem(cached_ratings, actor, actor_ratings(actor))
               /\ temporary_calculations' =
                      SetItem(temporary_calculations, stats_key(actor),
                              calculate_detailed_statistics(actor))
               /\ relationship_cache' = cache_actor_relationships(relationship_cache, actor)
               /\ pc' = IF Len(results) + 1 = Len(all_actors) THEN "network"
                        ELSE "analyze"
    /\ UNCHANGED <<storeVars, available, lastRead, meanVars, instance, current_year, command,
                   limit, futures, collaboration_data, trend_analysis, printed,
                   runNo, previous>>

\* report['collaboration_network'] = self._analyze_collaboration_network(actors)
AdvancedAnalyzeNetwork ==
    /\ command = "advanced"
    /\ pc = "network"
    /\ IF ~available
       THEN /\ pc' = "raised"
            /\ UNCHANGED collaboration_data
       ELSE /\ collaboration_data' = analyze_collaboration_network(all_actors)
            /\ pc' = "trends"
    /\ UNCHANGED <<storeVars, available, lastRead, meanVars, cacheVars, instance, queryVars, command, limit, futures, results,
                   trend_analysis, printed, runNo, previous>>

\* report['trend_analysis'] = self._analyze_career_trends(actors):
\* individual_career_arcs, one entry per actor id.
AdvancedAnalyzeTrends ==
    /\ command = "advanced"
    /\ pc = "trends"
    /\ IF ~available
       THEN /\ pc' = "raised"
            /\ UNCHANGED <<trend_analysis, queries>>
       ELSE /\ trend_analysis' = analyze_career_trends(all_actors)
            /\ queries' = [i \in 1..Len(queries) |->
                               AddQueries(queries[i], career_trend_queries)]
            /\ pc' = "report"
    /\ UNCHANGED <<storeVars, available, lastRead, meanVars, cacheVars, instance, current_year, command,
                   limit, futures, results, collaboration_data, printed, runNo,
                   previous>>

\* _write_report_to_file, were it to save the cached ratings back.
WriteReportToFile_clearing_ratings ==
    /\ command = "advanced"
    /\ pc = "report"
    /\ printed' = [i \in 1..Len(results) |-> report_entry(results[i])]
    /\ pc' = "done"
    /\ movieRatings' = [m \in Movies |-> <<>>]
    /\ UNCHANGED <<showOf, seasonOf, episodeRatings, castVars, available, lastRead,
                   meanVars, cacheVars, instance, queryVars, command, limit, futures, results,
                   collaboration_data, trend_analysis, runNo, previous>>

\* _write_report_to_file of advanced.
WriteReportToFile ==
    /\ command = "advanced"
    /\ pc = "report"
    /\ printed' = [i \in 1..Len(results) |-> report_entry(results[i])]
    /\ pc' = "done"
    /\ UNCHANGED <<storeVars, available, lastRead, meanVars, cacheVars, instance, queryVars, command, limit, futures, results,
                   collaboration_data, trend_analysis, runNo, previous>>

\* The command is run again over the unchanged store, by a new process.
Rerun ==
    /\ available
    /\ pc \in {"done", "raised"}
    /\ runNo < MaxRuns
    /\ runNo' = runNo + 1
    /\ previous' = <<results>>
    /\ pc' = "analyze"
    /\ futures' = [a \in SeqRange(all_actors) |-> "pending"]
    /\ results' = <<>>
    /\ collaboration_data' = <<>>
    /\ trend_analysis' = <<>>
    /\ printed' = <<>>
    /\ queries' = <<>>
    /\ cached_ratings' = <<>>
    /\ temporary_calculations' = <<>>
    /\ relationship_cache' = NoAttribute
    /\ UNCHANGED <<storeVars, available, lastRead, meanVars, instance, current_year, command,
                   limit>>

NextReport ==
    \/ AnalyzeNextActor
    \/ PoolStart
    \/ PoolFinish
    \/ PoolCollect
    \/ ReportNextActor
    \/ AdvancedProcessActor
    \/ AdvancedAnalyzeNetwork
    \/ AdvancedAnalyzeTrends
    \/ WriteReportToFile

NextRerun ==
    \/ NextReport
    \/ Rerun

\* The database stops answering while a command runs: from here on every
\* query raises.
StoreFails ==
    /\ available
    /\ pc \in {"analyze", "network", "trends", "report"}
    /\ available' = FALSE
    /\ UNCHANGED <<storeVars, lastRead, meanVars, cacheVars, instance, queryVars, runVars>>

NextOutage ==
    \/ NextReport
    \/ StoreFails

(***************************************************************************)
(* The stores the report commands are run over.                            *)
(***************************************************************************)
\* The actors that are in casts: those the simple commands analyse under
\* --limit ReportLimit.
CastActors == {a \in Actors : a <= ReportLimit}

OneShow ==
    /\ showOf = [s \in Seasons |-> 1]
    /\ seasonOf = [e \in Episodes |-> 1]

LastNames == <<"Lee", "Ray", "Poe", "Fox", "Kay", "Orr">>
OwnLastName(a) == LastNames[((a - 1) % Len(LastNames)) + 1]

DistinctNames ==
    /\ actorName = [a \in Actors |-> [first_name |-> "Ann", last_name |-> OwnLastName(a)]]
    /\ directorName = [d \in Directors |-> [first_name |-> "Dee", last_name |-> "Kim"]]

\* Movie 1 of day 0 and the later movies of day 400; episodes of day 800.
FixedDates ==
    /\ release_date = [m \in Movies |-> IF m = 1 THEN 0 ELSE 400]
    /\ air_date = [e \in Episodes |-> 800]

\* Only episode 1 has a cast.
OneCastEpisode ==
    /\ \E cast \in SUBSET CastActors :
           episodeActors = [e \in Episodes |-> IF e = 1 THEN cast ELSE {}]
    /\ episodeDirectors = [e \in Episodes |-> {}]

\* Movie 1 an action movie; the later movies and the shows dramas.
FixedGenres ==
    /\ movieGenre = [m \in Movies |-> IF m = 1 THEN "ACTION" ELSE "DRAMA"]
    /\ showGenre = [sh \in Shows |-> "DRAMA"]

FirstRun ==
    /\ available = TRUE
    /\ queries = <<>>
    /\ NoCaches
    /\ command \in Commands
    /\ limit = ReportLimit
    /\ StartOfRun
    /\ runNo = 1
    /\ previous = NoRun
    /\ lastRead = NoRead
    /\ NoCall

\* Any casts; movie 1 rated 2 and 5 or not, the later movies rated 4 or
\* not, episode 1 rated 4 or not.
InitReport ==
    /\ OneShow
    /\ DistinctNames
    /\ FixedDates
    /\ FixedGenres
    /\ movieActors \in [Movies -> SUBSET CastActors]
    /\ movieDirectors = [m \in Movies |-> IF m = 1 THEN Directors ELSE {}]
    /\ OneCastEpisode
    /\ \E rated \in SUBSET Movies :
           movieRatings = [m \in Movies |->
               IF m \notin rated THEN <<>> ELSE IF m = 1 THEN <<2, 5>> ELSE <<4>>]
    /\ \E rows \in {<<>>, <<4>>} :
           episodeRatings = [e \in Episodes |-> IF e = 1 THEN rows ELSE <<>>]
    /\ current_year = LastYear
    /\ FirstRun

SpecReport == InitReport /\ [][NextReport]_vars

\* Any casts; each actor after the first named like the first or not
\* (Person has no unique constraint on the names).
InitCollab ==
    /\ OneShow
    /\ \E namesake \in SUBSET (CastActors \ {1}) :
           actorName = [a \in Actors |->
               [first_name |-> "Ann",
                last_name |-> IF a \in namesake THEN OwnLastName(1) ELSE OwnLastName(a)]]
    /\ directorName = [d \in Directors |-> [first_name |-> "Dee", last_name |-> "Kim"]]
    /\ FixedDates
    /\ FixedGenres
    /\ movieActors \in [Movies -> SUBSET CastActors]
    /\ movieDirectors = [m \in Movies |-> IF m = 1 THEN Directors ELSE {}]
    /\ OneCastEpisode
    /\ movieRatings = [m \in Movies |-> <<4>>]
    /\ episodeRatings = [e \in Episodes |-> <<3>>]
    /\ current_year = LastYear
    /\ FirstRun

SpecCollab == InitCollab /\ [][NextReport]_vars

\* Every actor in every movie and in episode 1, everything rated.
InitRerun ==
    /\ OneShow
    /\ DistinctNames
    /\ FixedDates
    /\ FixedGenres
    /\ movieActors = [m \in Movies |-> CastActors]
    /\ movieDirectors = [m \in Movies |-> Directors]
    /\ episodeActors = [e \in Episodes |-> IF e = 1 THEN CastActors ELSE {}]
    /\ episodeDirectors = [e \in Episodes |-> {}]
    /\ movieRatings = [m \in Movies |-> <<4>>]
    /\ episodeRatings = [e \in Episodes |-> <<3>>]
    /\ current_year \in Years
    /\ FirstRun

SpecRerun == InitRerun /\ [][NextRerun]_vars

\* The same store, with the database failing at any point of the run.
SpecOutage == InitRerun /\ [][NextOutage]_vars

\* Every actor analysed (--limit NumActors), over a store where every movie
\* has the cast CastActors and the rating 4.
InitPool ==
    /\ OneShow
    /\ DistinctNames
    /\ FixedDates
    /\ FixedGenres
    /\ movieActors = [m \in Movies |-> CastActors]
    /\ movieDirectors = [m \in Movies |-> {}]
    /\ episodeActors = [e \in Episodes |-> {}]
    /\ episodeDirectors = [e \in Episodes |-> {}]
    /\ movieRatings = [m \in Movies |-> <<4>>]
    /\ episodeRatings = [e \in Episodes |-> <<>>]
    /\ available = TRUE
    /\ current_year \in Years
    /\ queries = <<>>
    /\ NoCaches
    /\ command \in Commands
    /\ limit = NumActors
    /\ StartOfRun
    /\ runNo = 1
    /\ previous = NoRun
    /\ lastRead = NoRead
    /\ NoCall

SpecPool == InitPool /\ [][NextReport]_vars

(***************************************************************************)
(* A store with a rating outside 1..5.  The validators of the rating       *)
(* fields run in full_clean() only: objects.create() and save() store any  *)
(* value the column (a positive small integer) takes.                      *)
(***************************************************************************)
OutOfRangeRows == {<<6>>, <<4, 6>>, <<0, 3>>}

\* Any movie casts; movie 1 with a rating outside 1..5, the later movies
\* rated 4; no episode has a cast.
InitDirty ==
    /\ OneShow
    /\ DistinctNames
    /\ FixedDates
    /\ FixedGenres
    /\ movieActors \in [Movies -> SUBSET CastActors]
    /\ movieDirectors = [m \in Movies |-> IF m = 1 THEN Directors ELSE {}]
    /\ episodeActors = [e \in Episodes |-> {}]
    /\ episodeDirectors = [e \in Episodes |-> {}]
    /\ \E rows \in OutOfRangeRows :
           movieRatings = [m \in Movies |-> IF m = 1 THEN rows ELSE <<4>>]
    /\ episodeRatings = [e \in Episodes |-> <<>>]
    /\ current_year = LastYear
    /\ FirstRun

SpecDirty == InitDirty /\ [][NextReport]_vars

\* The same runs, in which a worker that can start or end an analysis does
\* so, and the loop over as_completed takes every future that has ended.
SpecDirtyFair ==
    SpecDirty /\ WF_vars(PoolStart) /\ WF_vars(PoolFinish) /\ WF_vars(PoolCollect)

(***************************************************************************)
(* Calls of _calculate_rating_distribution and of _calculate_percentiles   *)
(* on lists of ratings 1..5, the store and the commands taking no part.    *)
(***************************************************************************)
NoStore ==
    /\ showOf = [s \in Seasons |-> 1]
    /\ seasonOf = [e \in Episodes |-> 1]
    /\ movieRatings = [m \in Movies |-> <<>>]
    /\ episodeRatings = [e \in Episodes |-> <<>>]
    /\ lastRead = NoRead
    /\ instance = NoInstance
    /\ NoCasts
    /\ NoCommand

InitDistribution ==
    /\ ratings_data \in BoundedSeq(RatingValues, MaxListLen)
    /\ average_rating = NotCalled
    /\ rating_distribution = NotCalled
    /\ performance_percentiles = NotCalled
    /\ NoStars
    /\ NoStore

CallCalculateRatingDistribution ==
    /\ rating_distribution.kind = "not called"
    /\ rating_distribution' =
           IF rating_distribution_raises(ratings_data) THEN KeyError
           ELSE Returned(calculate_rating_distribution(ratings_data))
    /\ UNCHANGED <<storeVars, available, lastRead, instance, ratings_data, average_rating,
                   performance_percentiles, rating, stars, cacheVars, queryVars, runVars>>

NextDistribution == CallCalculateRatingDistribution

SpecDistribution == InitDistribution /\ [][NextDistribution]_vars

\* all_ratings_data: dictionaries with a 'rating' (the other keys are not
\* read by _calculate_percentiles).
RatingDicts == [rating : RatingValues]

InitPercentiles ==
    /\ ratings_data \in BoundedSeq(RatingDicts, MaxDataLen)
    /\ average_rating = NotCalled
    /\ rating_distribution = NotCalled
    /\ performance_percentiles = NotCalled
    /\ NoStars
    /\ NoStore

CallCalculatePercentiles ==
    /\ performance_percentiles.kind = "not called"
    /\ performance_percentiles' = calculate_percentiles(ratings_data)
    /\ UNCHANGED <<storeVars, available, lastRead, instance, ratings_data, average_rating,
                   rating_distribution, rating, stars, cacheVars, queryVars, runVars>>

NextPercentiles == CallCalculatePercentiles

SpecPercentiles == InitPercentiles /\ [][NextPercentiles]_vars

(***************************************************************************)
(* The template filter rating_stars (templatetags/movie_extras.py): five   *)
(* (is_filled, is_half) pairs.  A string or None gives five empty pairs;   *)
(* any other value is converted with float(rating) and position i = 1..5   *)
(* is filled when i <= rating, half when i - 0.5 <= rating < i, else       *)
(* empty.  The ratings are the fractions num/den, for which the            *)
(* comparisons of the floats and of the fractions agree.                   *)
(***************************************************************************)
NumStars == 5

Empty == <<FALSE, FALSE>>
Filled == <<TRUE, FALSE>>
Half == <<FALSE, TRUE>>

\* The filter, were a rating exactly half way between two positions to
\* leave the upper one empty (star_position - 0.5 < rating_value).
rating_stars_open_half(value) ==
    IF value.kind \in {"text", "none"}
    THEN [i \in 1..NumStars |-> Empty]
    ELSE [i \in 1..NumStars |->
             LET star_position == i
             IN IF star_position * value.den <= value.num THEN Filled
                ELSE IF /\ (2 * star_position - 1) * value.den < 2 * value.num
                        /\ value.num < star_position * value.den
                     THEN Half
                     ELSE Empty]

rating_stars(value) ==
    IF value.kind \in {"text", "none"}
    THEN [i \in 1..NumStars |-> Empty]
    ELSE [i \in 1..NumStars |->
             LET star_position == i
             IN IF star_position * value.den <= value.num THEN Filled
                ELSE IF /\ (2 * star_position - 1) * value.den <= 2 * value.num
                        /\ value.num < star_position * value.den
                     THEN Half
                     ELSE Empty]

\* The values passed: None, a string, and the numbers from 0 to one above
\* the rating scale, in fractions of up to MaxDenominator parts.
StarRatings ==
    {None, NoRatingsYet}
    \cup UNION {{Num(n, d) : n \in 0..((MaxRating + 1) * d)} : d \in 1..MaxDenominator}

InitStars ==
    /\ rating \in StarRatings
    /\ stars = <<>>
    /\ ratings_data = <<>>
    /\ average_rating = NotCalled
    /\ rating_distribution = NotCalled
    /\ performance_percentiles = NotCalled
    /\ NoStore

CallRatingStars ==
    /\ stars = <<>>
    /\ stars' = rating_stars(rating)
    /\ UNCHANGED <<storeVars, available, lastRead, instance, ratings_data, average_rating,
                   rating_distribution, performance_percentiles, rating, cacheVars,
                   queryVars, runVars>>

NextStars == CallRatingStars

SpecStars == InitStars /\ [][NextStars]_vars

\* Movie 1 released in 1988, before the first year of the yearly
\* breakdown; the later movies in 1991 and the episodes in 1990.
OldDates ==
    /\ release_date = [m \in Movies |-> IF m = 1 THEN -400 ELSE 400]
    /\ air_date = [e \in Episodes |-> 30]

\* Any cast for the movies and for episode 1, over those dates.
InitYears ==
    /\ OneShow
    /\ DistinctNames
    /\ OldDates
    /\ FixedGenres
    /\ movieActors \in [Movies -> SUBSET CastActors]
    /\ movieDirectors = [m \in Movies |-> {}]
    /\ OneCastEpisode
    /\ movieRatings = [m \in Movies |-> <<4>>]
    /\ episodeRatings = [e \in Episodes |-> <<>>]
    /\ current_year = LastYear
    /\ FirstRun

SpecYears == InitYears /\ [][NextReport]_vars

(***************************************************************************)
(* The views and the admin over the store of SpecRating.                   *)
(* home, tv_show_list and search annotate each show with                   *)
(* avg_rating = Avg('seasons__episodes__ratings__rating'): the average     *)
(* over the rating rows of all episodes of all seasons of the show, NULL   *)
(* without rows.                                                           *)
(***************************************************************************)
EpisodesOfShow(sh) == {e \in Episodes : showOf[seasonOf[e]] = sh}

tv_show_avg_rating(sh) == AvgRows(RowsOf(SetToSeq(EpisodesOfShow(sh)), episodeRatings))

(***************************************************************************)
(* MovieAdmin.avg_rating and TVShowAdmin.avg_rating: `if obj.rating:`      *)
(* then f"{obj.rating:.1f}" (with the number of ratings for a movie), else *)
(* "No ratings yet".  truthy is Python's truth value: None is false, a     *)
(* non-empty string is true, a number is true unless 0.  format_1f is the  *)
(* number in tenths, rounded half to even as Decimal formats it; the       *)
(* format code 'f' applied to a string raises ValueError.                  *)
(***************************************************************************)
truthy(v) ==
    CASE v.kind = "none" -> FALSE
      [] v.kind = "text" -> TRUE
      [] v.kind = "num" -> v.num # 0

format_1f(v) ==
    LET q == (10 * v.num) \div v.den
        r == (10 * v.num) % v.den
    IN IF 2 * r > v.den \/ (2 * r = v.den /\ q % 2 = 1) THEN q + 1 ELSE q

ValueError == [kind |-> "ValueError", tenths |-> 0, count |-> 0]

Formatted(tenths, count) == [kind |-> "formatted", tenths |-> tenths, count |-> count]

MovieAdmin_avg_rating(m) ==
    LET obj_rating == Movie_rating(m)
    IN IF truthy(obj_rating)
       THEN IF obj_rating.kind = "num"
            THEN Formatted(format_1f(obj_rating), Len(movieRatings[m]))
            ELSE ValueError
       ELSE NoRatingsYet

\* The column of a show has no number of ratings (count 0 here).
TVShowAdmin_avg_rating(sh, first) ==
    LET obj_rating == TVShow_rating(sh, first)
    IN IF truthy(obj_rating)
       THEN IF obj_rating.kind = "num"
            THEN Formatted(format_1f(obj_rating), 0)
            ELSE ValueError
       ELSE NoRatingsYet

TvShowList ==
    /\ \E sh \in Shows :
           lastRead' = [op |-> "tv_show_list", id |-> sh, result |-> tv_show_avg_rating(sh)]
    /\ UNCHANGED <<storeVars, available, instance, meanVars, cacheVars, queryVars, runVars>>

MovieAdminAvgRating ==
    /\ \E m \in Movies :
           lastRead' = [op |-> "MovieAdmin.avg_rating", id |-> m,
                        result |-> MovieAdmin_avg_rating(m)]
    /\ UNCHANGED <<storeVars, available, instance, meanVars, cacheVars, queryVars, runVars>>

TVShowAdminAvgRating ==
    /\ \E sh \in Shows, first \in FirstRows :
           lastRead' = [op |-> "TVShowAdmin.avg_rating", id |-> sh,
                        result |-> TVShowAdmin_avg_rating(sh, first)]
    /\ UNCHANGED <<storeVars, available, instance, meanVars, cacheVars, queryVars, runVars>>

NextSite ==
    \/ AddMovieRating
    \/ AddEpisodeRating
    \/ TvShowList
    \/ MovieAdminAvgRating
    \/ TVShowAdminAvgRating

SpecSite == InitRating /\ [][NextSite]_vars

(***************************************************************************)
(* A model instance fetched once and kept (a view's object, an admin row)  *)
(* while rating rows arrive.  Movie.rating, Episode.rating and             *)
(* TVShow.rating are cached_property: the first read stores its result in  *)
(* the instance, later reads return what is stored.  Season.rating is a    *)
(* property, computed at each read.  instance.rating is the value stored   *)
(* in the instance (NotCalled when none is).                               *)
(***************************************************************************)
Models == {"movie", "episode", "season", "show"}

Pks(model) ==
    CASE model = "movie" -> Movies
      [] model = "episode" -> Episodes
      [] model = "season" -> Seasons
      [] model = "show" -> Shows

\* Every rating a cached_property, Season.rating included.
is_cached_property_everywhere(model) == model \in Models

is_cached_property(model) == model \in {"movie", "episode", "show"}

\* Model.objects.get(pk=...): a new instance, nothing cached.
LoadInstance ==
    /\ instance = NoInstance
    /\ \E model \in Models :
           \E pk \in Pks(model) :
               instance' = [model |-> model, pk |-> pk, rating |-> NotCalled]
    /\ UNCHANGED <<storeVars, available, lastRead, meanVars, cacheVars, queryVars, runVars>>

\* instance.rating
ReadInstanceRating ==
    /\ instance.model \in Models
    /\ \E first \in FirstRows :
           LET computed ==
                   CASE instance.model = "movie" -> Movie_rating(instance.pk)
                     [] instance.model = "episode" -> Episode_rating(instance.pk)
                     [] instance.model = "season" -> Season_rating(instance.pk)
                     [] instance.model = "show" -> TVShow_rating(instance.pk, first)
               value ==
                   IF is_cached_property(instance.model) /\ instance.rating # NotCalled
                   THEN instance.rating
                   ELSE computed
           IN /\ lastRead' = [op |-> instance.model, id |-> instance.pk, result |-> value]
              /\ instance' = IF is_cached_property(instance.model)
                             THEN [instance EXCEPT !.rating = value]
                             ELSE instance
    /\ UNCHANGED <<storeVars, available, meanVars, cacheVars, queryVars, runVars>>

NextStale ==
    \/ AddMovieRating
    \/ AddEpisodeRating
    \/ LoadInstance
    \/ ReadInstanceRating

\* Episodes 1 and 2 in season 1 and episode 3 in season 2, nothing rated.
InitStale ==
    /\ showOf = [s \in Seasons |-> 1]
    /\ seasonOf = [e \in Episodes |-> IF e < NumEpisodes THEN 1 ELSE NumSeasons]
    /\ movieRatings = [m \in Movies |-> <<>>]
    /\ episodeRatings = [e \in Episodes |-> <<>>]
    /\ lastRead = NoRead
    /\ NoCasts
    /\ NoCall
    /\ NoCommand

SpecStale == InitStale /\ [][NextStale]_vars

(***************************************************************************)
(* Reference quantities of the claims, in integer arithmetic.              *)
(***************************************************************************)
RatedEpisodes(s) == {e \in EpisodesOf(s) : Len(episodeRatings[e]) >= 1}
RatedSeasons(sh) == {s \in SeasonsOf(sh) : RatedEpisodes(s) # {}}

RECURSIVE ProdLen(_)
ProdLen(E) ==
    IF E = {} THEN 1
    ELSE LET e == CHOOSE x \in E : TRUE
         IN Len(episodeRatings[e]) * ProdLen(E \ {e})

\* Sum over the episodes of E of (sum of the episode's rows / number of its
\* rows), multiplied by the common denominator L.
RECURSIVE ScaledMeanSum(_, _)
ScaledMeanSum(E, L) ==
    IF E = {} THEN 0
    ELSE LET e == CHOOSE x \in E : TRUE
         IN SumSeq(episodeRatings[e]) * (L \div Len(episodeRatings[e]))
            + ScaledMeanSum(E \ {e}, L)

\* v is the number (sum over E of the per-episode means) / Cardinality(E).
IsMeanOfEpisodeMeans(v, E) ==
    /\ v.kind = "num"
    /\ v.num * Cardinality(E) * ProdLen(E) = v.den * ScaledMeanSum(E, ProdLen(E))

(***************************************************************************)
(* C1: Season.rating is the arithmetic mean of the per-episode mean        *)
(* ratings over only the episodes that have at least one rating row;       *)
(* unrated episodes add nothing to the sum or to the divisor.              *)
(***************************************************************************)
C1_SeasonRatingExcludesUnrated ==
    lastRead.op = "season" =>
        IF RatedEpisodes(lastRead.id) = {}
        THEN lastRead.result.kind # "num"
        ELSE IsMeanOfEpisodeMeans(lastRead.result, RatedEpisodes(lastRead.id))

\* Two episodes of the season rated 5 and 5, a third unrated: the season's
\* rating read is 5.
C1_Witness ==
    /\ lastRead.op = "season"
    /\ \E e1, e2, e3 \in EpisodesOf(lastRead.id) :
           /\ e1 # e2
           /\ episodeRatings[e1] = <<5>>
           /\ episodeRatings[e2] = <<5>>
           /\ episodeRatings[e3] = <<>>
    /\ lastRead.result = Num(5, 1)

(***************************************************************************)
(* C2: TVShow.rating is the mean, over the show's seasons with a defined   *)
(* rating, of the season's rating as Season.rating computes it.            *)
(***************************************************************************)
MeanOfSeasonRatings(sh) ==
    LET ss == SetToSeq(SeasonsOf(sh))
    IN Avg([i \in 1..Len(ss) |-> Season_rating(ss[i])])

C2_ShowRatingIsMeanOfSeasonRatings ==
    lastRead.op = "show" =>
        (RatedSeasons(lastRead.id) # {} =>
            lastRead.result = MeanOfSeasonRatings(lastRead.id))

(***************************************************************************)
(* C3: a rating with no data is never a number: a Movie or Episode without *)
(* rating rows, a Season whose episodes are all unrated and a TVShow whose *)
(* seasons are all unrated return a no-data result, and an item with at    *)
(* least one rating row returns a number.                                  *)
(***************************************************************************)
HasRatingRow(op, id) ==
    CASE op = "movie" -> movieRatings[id] # <<>>
      [] op = "episode" -> episodeRatings[id] # <<>>
      [] op = "season" -> RatedEpisodes(id) # {}
      [] op = "show" -> RatedSeasons(id) # {}
      [] OTHER -> FALSE

C3_NoDataIsNeverANumber ==
    lastRead.op # "none" =>
        (lastRead.result.kind = "num" <=> HasRatingRow(lastRead.op, lastRead.id))

(***************************************************************************)
(* C4: _calculate_average_rating returns an undefined result if and only   *)
(* if the list is empty; for a non-empty list R it returns sum(R)/len(R),  *)
(* which lies within [min(R), max(R)].                                     *)
(***************************************************************************)
C4_MeanUndefinedIffEmpty ==
    average_rating # NotCalled =>
        /\ (average_rating.kind # "num") <=> (ratings_data = <<>>)
        /\ ratings_data # <<>> =>
               /\ average_rating.num * Len(ratings_data)
                      = average_rating.den * SumSeq(ratings_data)
               /\ \E j, k \in 1..Len(ratings_data) :
                      /\ ratings_data[j] * average_rating.den <= average_rating.num
                      /\ average_rating.num <= ratings_data[k] * average_rating.den

(***************************************************************************)
(* Reference quantities of the report claims, from the casts directly.     *)
(***************************************************************************)
SimpleCommands == {"simple_actor", "simple_actors"}

\* The analysis of every actor has been collected.
AnalysisOver == pc \in {"network", "trends", "report", "done", "raised"}

ZeroContent(a) ==
    /\ \A m \in Movies : a \notin movieActors[m]
    /\ \A e \in Episodes : a \notin episodeActors[e]

\* The number of movies and episodes whose cast holds both a and b.
SharedCount(a, b) ==
    Cardinality({m \in Movies : {a, b} \subseteq movieActors[m]})
    + Cardinality({e \in Episodes : {a, b} \subseteq episodeActors[e]})

RecordOf(a) == results[CHOOSE i \in 1..Len(results) : results[i].actor_id = a]
HasRecord(a) == \E i \in 1..Len(results) : results[i].actor_id = a

IsActorKey(k) == \E a \in Actors : full_name(actorName[a]) = k
ActorOfKey(k) == CHOOSE a \in Actors : full_name(actorName[a]) = k

(***************************************************************************)
(* C5: for an actor with zero movies and zero episodes the summary of      *)
(* _analyze_single_actor has all counts 0, every rating mean (movie,       *)
(* episode/TV, overall) undefined rather than a number, and career span 0. *)
(***************************************************************************)
C5_ZeroContentSummary ==
    \A i \in 1..Len(results) :
        IF command = "advanced"
        THEN ZeroContent(results[i].id) =>
                 /\ results[i].total_movies = 0
                 /\ results[i].total_tv_episodes = 0
                 /\ results[i].avg_movie_rating.kind # "num"
                 /\ results[i].avg_tv_rating.kind # "num"
                 /\ results[i].career_span_years = 0
        ELSE ZeroContent(results[i].actor_id) =>
                 /\ results[i].total_movies = 0
                 /\ results[i].total_episodes = 0
                 /\ results[i].movie_avg_rating.kind # "num"
                 /\ results[i].episode_avg_rating.kind # "num"
                 /\ results[i].overall_avg_rating.kind # "num"
                 /\ results[i].career_metrics.career_span_days = Num(0, 1)

(***************************************************************************)
(* C6: a run of a report command over a population with an actor without   *)
(* movies, episodes or ratings completes without raising, the formatting   *)
(* of that actor's average ratings included.                               *)
(***************************************************************************)
C6_EmptyInputNeverRaises == pc # "raised"

(***************************************************************************)
(* C7: actor_pairs of the advanced report holds an entry for exactly the   *)
(* unordered pairs of distinct actors that share a movie or an episode,    *)
(* each under one key, none pairing an actor with itself, and the entry's  *)
(* collaborations is the number of movies whose cast holds both plus the   *)
(* number of episodes whose cast holds both.                               *)
(***************************************************************************)
C7_ActorPairsAreSharedCounts ==
    (command = "advanced" /\ pc \in {"report", "done"}) =>
        LET actor_pairs == collaboration_data.actor_pairs
        IN /\ \A i \in 1..Len(actor_pairs) :
                  /\ actor_pairs[i].key[1] # actor_pairs[i].key[2]
                  /\ actor_pairs[i].collaborations
                         = SharedCount(actor_pairs[i].key[1], actor_pairs[i].key[2])
                  /\ \A j \in 1..Len(actor_pairs) :
                         {actor_pairs[i].key[1], actor_pairs[i].key[2]}
                             = {actor_pairs[j].key[1], actor_pairs[j].key[2]} => i = j
           /\ \A a, b \in Actors :
                  (a < b /\ SharedCount(a, b) > 0) =>
                      \E i \in 1..Len(actor_pairs) :
                          {actor_pairs[i].key[1], actor_pairs[i].key[2]} = {a, b}

(***************************************************************************)
(* C8: the counts of _find_collaborations are symmetric and free of        *)
(* self-pairs: for distinct actors A and B the count recorded for B in A's *)
(* map equals the count recorded for A in B's map and the number of movies *)
(* and episodes they share, and no actor is a collaborator in their own    *)
(* map, also when distinct actors have the same full name.                 *)
(***************************************************************************)
C8_CollaborationsSymmetric ==
    (command \in SimpleCommands /\ AnalysisOver) =>
        \A a, b \in Actors :
            (HasRecord(a) /\ HasRecord(b)) =>
                LET count_of_b == Get(RecordOf(a).collaborations,
                                      full_name(actorName[b]), 0)
                    count_of_a == Get(RecordOf(b).collaborations,
                                      full_name(actorName[a]), 0)
                IN IF a = b THEN count_of_a = 0
                   ELSE /\ count_of_b = count_of_a
                        /\ count_of_b = SharedCount(a, b)

(***************************************************************************)
(* C9: running the actor analysis twice over an unchanged store yields the *)
(* same sequence of per-actor summary records, in the same order and with  *)
(* the same field values, for every scheduling of the worker threads.      *)
(***************************************************************************)
C9_SecondRunSameRecords ==
    (runNo >= 2 /\ AnalysisOver) => previous = <<results>>

(***************************************************************************)
(* C10: the Top Collaborations list of an actor is sorted by count         *)
(* descending, and of two collaborators of equal count the one of the      *)
(* smaller identifier is listed first.                                     *)
(***************************************************************************)
C10_TiesByAscendingId ==
    command \in SimpleCommands =>
        \A s \in 1..Len(printed) :
            LET top == printed[s].top_collabs
            IN \A i, j \in 1..Len(top) :
                   i < j =>
                       /\ top[i].count >= top[j].count
                       /\ (/\ top[i].count = top[j].count
                           /\ IsActorKey(top[i].key)
                           /\ IsActorKey(top[j].key))
                              => ActorOfKey(top[i].key) < ActorOfKey(top[j].key)

(***************************************************************************)
(* The mean of the per-item means over the items of E, for any of the two  *)
(* rating tables.                                                          *)
(***************************************************************************)
RECURSIVE ProdLenOf(_, _)
ProdLenOf(E, ratings) ==
    IF E = {} THEN 1
    ELSE LET e == CHOOSE x \in E : TRUE
         IN Len(ratings[e]) * ProdLenOf(E \ {e}, ratings)

RECURSIVE ScaledMeanSumOf(_, _, _)
ScaledMeanSumOf(E, ratings, L) ==
    IF E = {} THEN 0
    ELSE LET e == CHOOSE x \in E : TRUE
         IN SumSeq(ratings[e]) * (L \div Len(ratings[e]))
            + ScaledMeanSumOf(E \ {e}, ratings, L)

IsMeanOfMeans(v, E, ratings) ==
    /\ v.kind = "num"
    /\ v.num * Cardinality(E) * ProdLenOf(E, ratings)
           = v.den * ScaledMeanSumOf(E, ratings, ProdLenOf(E, ratings))

RatedMoviesOf(a) == {m \in Movies : a \in movieActors[m] /\ movieRatings[m] # <<>>}
RatedEpisodesOf(a) == {e \in Episodes : a \in episodeActors[e] /\ episodeRatings[e] # <<>>}

\* The movie and the episode mean of a summary record of either kind.
MovieMeanOf(rec) ==
    IF command = "advanced" THEN rec.avg_movie_rating ELSE rec.movie_avg_rating
EpisodeMeanOf(rec) ==
    IF command = "advanced" THEN rec.avg_tv_rating ELSE rec.episode_avg_rating
ActorOf(rec) == IF command = "advanced" THEN rec.id ELSE rec.actor_id

(***************************************************************************)
(* C11: an actor's mean movie rating is the mean of the per-movie mean     *)
(* ratings over the actor's movies with at least one rating, each rated    *)
(* movie weighing the same whatever its number of rating rows; the mean    *)
(* episode rating likewise over the actor's episodes.                      *)
(***************************************************************************)
C11_ActorMeanIsMeanOfItemMeans ==
    \A i \in 1..Len(results) :
        LET a == ActorOf(results[i])
        IN /\ RatedMoviesOf(a) # {} =>
                  IsMeanOfMeans(MovieMeanOf(results[i]), RatedMoviesOf(a), movieRatings)
           /\ RatedEpisodesOf(a) # {} =>
                  IsMeanOfMeans(EpisodeMeanOf(results[i]), RatedEpisodesOf(a), episodeRatings)

\* The days between the earliest and the latest of the actor's release and
\* air dates.
HasDates(a) == ~ZeroContent(a)
CareerDays(a) ==
    LET dates == {release_date[m] : m \in {x \in Movies : a \in movieActors[x]}}
                 \cup {air_date[e] : e \in {x \in Episodes : a \in episodeActors[x]}}
    IN MaxOf(dates) - MinOf(dates)

\* v is the whole number of years in the days (years of 365 or 365.25 days).
IsWholeYears(v, days) ==
    /\ v.kind = "num"
    /\ v.den = 1
    /\ v.num \in {days \div 365, (days * 4) \div 1461}

(***************************************************************************)
(* C12: every career span reported for an actor (career_span_years of the  *)
(* advanced summary, career_span of the career-trend section,              *)
(* career_span_years of career_metrics) is the difference in whole years   *)
(* between the earliest and the latest date over all of the actor's movie  *)
(* release dates and episode air dates together.                           *)
(***************************************************************************)
C12_CareerSpanWholeYears ==
    /\ \A i \in 1..Len(results) :
           HasDates(ActorOf(results[i])) =>
               IF command = "advanced"
               THEN IsWholeYears(Num(results[i].career_span_years, 1),
                                 CareerDays(results[i].id))
               ELSE IsWholeYears(results[i].career_metrics.career_span_years,
                                 CareerDays(results[i].actor_id))
    /\ (command = "advanced" /\ pc \in {"report", "done"}) =>
           \A a \in DOMAIN trend_analysis.individual_career_arcs :
               HasDates(a) =>
                   IsWholeYears(trend_analysis.individual_career_arcs[a].career_span,
                                CareerDays(a))

\* The actor's content of a genre and its rating rows, from the store.
Genres == {movieGenre[m] : m \in Movies} \cup {showGenre[sh] : sh \in Shows}
GenreMoviesOf(a, g) == {m \in Movies : a \in movieActors[m] /\ movieGenre[m] = g}
GenreEpisodesOf(a, g) ==
    {e \in Episodes : a \in episodeActors[e] /\ showGenre[showOf[seasonOf[e]]] = g}
GenreRowsOf(a, g) ==
    RowsOf(SetToSeq(GenreMoviesOf(a, g)), movieRatings)
    \o RowsOf(SetToSeq(GenreEpisodesOf(a, g)), episodeRatings)

IsMeanOfRows(v, rows) ==
    /\ v.kind = "num"
    /\ v.num * Len(rows) = v.den * SumSeq(rows)

SumOver(d, Field(_)) == SumSeq([i \in 1..Len(d) |-> Field(d[i])])
MoviesField(x) == x.movies
EpisodesField(x) == x.episodes

(***************************************************************************)
(* C13: the per-genre breakdown of an actor holds, for each genre in which *)
(* the actor has content, the number of the actor's movies of the genre,   *)
(* the number of the actor's episodes whose show has the genre and the     *)
(* mean rating of that genre's content; the movie counts sum to            *)
(* total_movies, the episode counts to total_episodes, and the mean the    *)
(* report prints for a genre is the mean of that genre's ratings.          *)
(***************************************************************************)
C13_GenreBreakdown ==
    command \in SimpleCommands =>
        /\ \A i \in 1..Len(results) :
               LET rec == results[i]
                   gb == rec.genre_breakdown
               IN /\ SumOver(gb, MoviesField) = rec.total_movies
                  /\ SumOver(gb, EpisodesField) = rec.total_episodes
                  /\ \A g \in Genres :
                         (GenreMoviesOf(rec.actor_id, g) # {}
                              \/ GenreEpisodesOf(rec.actor_id, g) # {}) =>
                             \E k \in 1..Len(gb) :
                                 /\ gb[k].key = g
                                 /\ gb[k].movies = Cardinality(GenreMoviesOf(rec.actor_id, g))
                                 /\ gb[k].episodes = Cardinality(GenreEpisodesOf(rec.actor_id, g))
                                 /\ GenreRowsOf(rec.actor_id, g) # <<>> =>
                                        IsMeanOfRows(gb[k].avg_rating,
                                                     GenreRowsOf(rec.actor_id, g))
        /\ \A s \in 1..Len(printed) :
               \A k \in 1..Len(printed[s].genre_lines) :
                   LET line == printed[s].genre_lines[k]
                       rows == GenreRowsOf(printed[s].actor_id, line.genre)
                   IN rows # <<>> => IsMeanOfRows(line.avg_rating, rows)

(***************************************************************************)
(* C14: in _analyze_all_actors of the simple commands an actor whose       *)
(* analysis raises is skipped, and the analyses of all the other actors    *)
(* still complete and are in the results returned; one actor's failure     *)
(* never aborts the batch.                                                 *)
(***************************************************************************)
C14_FailureIsolatedPerActor ==
    (command \in SimpleCommands /\ AnalysisOver) =>
        \A a \in SeqRange(all_actors) :
            HasRecord(a) <=> ~simple_analysis_raises(a)

\* The rating rows of the actor's movies and episodes.
AllRowsOf(a) ==
    RowsOf(actor_movies(a), movieRatings) \o RowsOf(actor_episodes(a), episodeRatings)

(***************************************************************************)
(* C15: a rating outside 1..5 met while analysing an actor is not fatal:   *)
(* the offending rating is skipped, and the aggregation of the other       *)
(* ratings and of the other actors completes; _calculate_rating_           *)
(* distribution does not abort the run.                                    *)
(***************************************************************************)
C15_OutOfRangeRatingSkipped ==
    (command \in SimpleCommands /\ AnalysisOver) =>
        \A a \in SeqRange(all_actors) :
            /\ HasRecord(a)
            /\ RecordOf(a).rating_distribution
                   = calculate_rating_distribution(AllRowsOf(a))

(***************************************************************************)
(* C16: when the store becomes unavailable during a run, the run is fatal  *)
(* and the error reaches the caller: the command does not go on to emit a  *)
(* report built from the actors analysed so far as if it were complete.    *)
(***************************************************************************)
C16_OutageIsFatal ==
    (~available /\ (pc = "done" \/ printed # <<>>)) =>
        Len(results) = Len(all_actors)

(***************************************************************************)
(* C17: the report commands only read: running any of the three, any       *)
(* number of times, leaves every record of the store (actors, directors,   *)
(* movies, shows, seasons, episodes, ratings and their relationships)      *)
(* unchanged.                                                              *)
(***************************************************************************)
C17_StoreNeverWritten == [][UNCHANGED storeVars]_vars

\* A second run of a command has ended, over a store with casts and ratings.
C17_Witness ==
    /\ runNo = 2
    /\ pc = "done"
    /\ printed # <<>>
    /\ \E m \in Movies : movieActors[m] # {} /\ movieRatings[m] # <<>>

(***************************************************************************)
(* C18: the queries issued to analyse one actor are bounded by a constant  *)
(* multiple of the actor's content count and do not grow with the number   *)
(* of genres or of years: no query is issued per genre or per year.        *)
(***************************************************************************)
C18_NoQueryPerGenreOrYear ==
    \A i \in 1..Len(queries) :
        /\ queries[i].per_genre = 0
        /\ queries[i].per_year = 0

Running == {a \in DOMAIN futures : futures[a] = "running"}

(***************************************************************************)
(* C19: in the thread-pool _analyze_all_actors no more than five per-actor *)
(* analyses execute at the same time, whatever the number of actors        *)
(* submitted.                                                              *)
(***************************************************************************)
C19_AtMostFiveRunning ==
    command = "simple_actors" => Cardinality(Running) <= 5

\* Six analyses submitted: five execute and the sixth waits for a worker.
C19_Witness ==
    /\ command = "simple_actors"
    /\ Cardinality(DOMAIN futures) > 5
    /\ Cardinality(Running) = 5
    /\ \E a \in DOMAIN futures : futures[a] = "pending"

\* The records a sequential run over the same actors returns.
SequentialRecords ==
    [i \in 1..Len(all_actors) |-> simple_actors_analyze_single_actor(all_actors[i])]

SameMultiset(s, t) ==
    /\ Len(s) = Len(t)
    /\ \A x \in SeqRange(s) \cup SeqRange(t) :
           Cardinality({i \in 1..Len(s) : s[i] = x})
               = Cardinality({i \in 1..Len(t) : t[i] = x})

(***************************************************************************)
(* C20: concurrent per-actor analyses share no mutable state: a worker     *)
(* writes only to the data of its own actor and only the coordinating      *)
(* thread appends to results, so under every interleaving the multiset of  *)
(* records returned is that of a sequential run.                           *)
(***************************************************************************)
C20_PoolRecordsAsSequential ==
    /\ command = "simple_actors" =>
           \A i \in 1..Len(results) :
               results[i] = simple_actors_analyze_single_actor(results[i].actor_id)
    /\ (command = "simple_actors" /\ AnalysisOver) =>
           SameMultiset(results, SequentialRecords)

\* All six analyses collected, in an order other than that of submission.
C20_Witness ==
    /\ command = "simple_actors"
    /\ AnalysisOver
    /\ Len(results) = NumActors
    /\ \E i \in 1..(Len(results) - 1) : results[i].actor_id > results[i + 1].actor_id

\* The number of records of actor a in the results.
RecordCount(a) == Cardinality({i \in 1..Len(results) : results[i].actor_id = a})

(***************************************************************************)
(* C21: the thread-pool _analyze_all_actors always terminates, and on      *)
(* return every submitted actor is accounted for exactly once: one record  *)
(* in the results or one exception reported, never both and never none;    *)
(* when no analysis raises there are as many results as actors.            *)
(***************************************************************************)
C21_PoolTerminatesAllAccounted ==
    /\ [](command = "simple_actors" =>
            /\ \A a \in DOMAIN futures : RecordCount(a) <= 1
            /\ AnalysisOver =>
                   /\ \A a \in DOMAIN futures :
                          \/ futures[a] = "yielded" /\ RecordCount(a) = 1
                          \/ futures[a] = "reported" /\ RecordCount(a) = 0
                   /\ (\A a \in DOMAIN futures : ~simple_analysis_raises(a)) =>
                          Len(results) = Len(all_actors))
    /\ (command = "simple_actors") ~> AnalysisOver

\* The loop has returned with a record for one actor and an exception
\* reported for another.
C21_Witness ==
    /\ command = "simple_actors"
    /\ AnalysisOver
    /\ \E a, b \in DOMAIN futures :
           /\ futures[a] = "yielded" /\ RecordCount(a) = 1
           /\ futures[b] = "reported" /\ RecordCount(b) = 0

(***************************************************************************)
(* C22: during one run of the advanced report the caches on the command    *)
(* object only grow: no step while the actors are processed or the report  *)
(* is built and written removes an entry of all_actor_data,                *)
(* cached_ratings, temporary_calculations or relationship_cache, and after *)
(* the k-th actor each of them holds exactly k entries, one per processed  *)
(* actor, up to the writing of the report.                                 *)
(***************************************************************************)
Keys(d) == {d[i].key : i \in 1..Len(d)}

IsPrefix(s, u) == Len(s) <= Len(u) /\ \A i \in 1..Len(s) : u[i] = s[i]

Processed == {all_actors[i] : i \in 1..Len(results)}

C22_CachesOnlyGrow ==
    /\ [](command = "advanced" =>
            /\ Len(cached_ratings) = Len(results)
            /\ Len(temporary_calculations) = Len(results)
            /\ Len(relationship_cache.dict) = Len(results)
            /\ Keys(cached_ratings) = Processed
            /\ Keys(temporary_calculations) = {stats_key(a) : a \in Processed}
            /\ Keys(relationship_cache.dict) = Processed
            /\ pc \in {"network", "trends", "report", "done"} =>
                   Len(results) = Len(all_actors))
    /\ [][(command = "advanced" /\ runNo' = runNo) =>
            /\ IsPrefix(results, results')
            /\ IsPrefix(cached_ratings, cached_ratings')
            /\ IsPrefix(temporary_calculations, temporary_calculations')
            /\ IsPrefix(relationship_cache.dict, relationship_cache'.dict)]_vars

\* The report of the advanced command is written with every cache holding
\* an entry for each of the actors.
C22_Witness ==
    /\ command = "advanced"
    /\ pc = "done"
    /\ Len(all_actors) >= 2
    /\ Len(results) = Len(all_actors)
    /\ Len(cached_ratings) = Len(all_actors)
    /\ Len(temporary_calculations) = Len(all_actors)
    /\ Len(relationship_cache.dict) = Len(all_actors)

(***************************************************************************)
(* C26: for ratings all within 1..5, _calculate_rating_distribution        *)
(* returns (without raising) a mapping whose keys are exactly 1..5, each   *)
(* value the number of ratings of the list equal to its key, so that the   *)
(* values sum to the number of ratings.                                    *)
(***************************************************************************)
C26_DistributionCountsEachRating ==
    rating_distribution.kind # "not called" =>
        /\ rating_distribution.kind = "returned"
        /\ LET distribution == rating_distribution.value
           IN /\ DOMAIN distribution = MinRating..MaxRating
              /\ \A r \in MinRating..MaxRating :
                     distribution[r]
                         = Cardinality({i \in 1..Len(ratings_data) : ratings_data[i] = r})
              /\ SumSeq([r \in MinRating..MaxRating |-> distribution[r]])
                     = Len(ratings_data)

\* The distribution of a list that holds one rating twice and another once.
C26_Witness ==
    /\ rating_distribution.kind = "returned"
    /\ ratings_data = <<4, 2, 4>>
    /\ rating_distribution.value[4] = 2
    /\ rating_distribution.value[2] = 1

(***************************************************************************)
(* C28: _calculate_percentiles never indexes out of range: for a non-empty *)
(* list and each of the percentiles 25, 50, 75, 90 the index               *)
(* int(size * p / 100) lies within 0..size-1 and the value returned is an  *)
(* element of the list; the four values are non-decreasing; an empty list  *)
(* gives an empty mapping.                                                 *)
(***************************************************************************)
C28_PercentilesWithinRange ==
    performance_percentiles.kind # "not called" =>
        /\ performance_percentiles.kind = "returned"
        /\ LET size == Len(ratings_data)
               percentiles == performance_percentiles.value
           IN IF size = 0 THEN percentiles = <<>>
              ELSE /\ Len(percentiles) = Len(Percentiles)
                   /\ \A i \in 1..Len(Percentiles) :
                          /\ percentile_index(size, Percentiles[i].p) \in 0..(size - 1)
                          /\ percentiles[i].key = Percentiles[i].key
                          /\ \E j \in 1..size :
                                 percentiles[i].value = ratings_data[j].rating
                   /\ \A i \in 1..(Len(percentiles) - 1) :
                          percentiles[i].value <= percentiles[i + 1].value

\* The percentiles of an unsorted list of five ratings, the 90th being its
\* last element in sorted order.
C28_Witness ==
    /\ performance_percentiles.kind = "returned"
    /\ Len(ratings_data) = MaxDataLen
    /\ ratings_data[1].rating = 5
    /\ ratings_data[2].rating = 1
    /\ performance_percentiles.value[1].value = 2
    /\ performance_percentiles.value[4].value = 5

(***************************************************************************)
(* C29: rating_stars returns exactly five (is_filled, is_half) entries,    *)
(* none both filled and half; the filled entries are the first k, k the    *)
(* number of positions 1..5 that are <= rating; at most one entry is half, *)
(* and it is the first entry that is not filled; a string or None gives    *)
(* five empty entries.  As stated, a half entry occurs exactly when the    *)
(* fractional part of the rating is at least 0.5                           *)
(* (C29_HalfEntryIffFraction); as the filter computes it, exactly when     *)
(* moreover the rating is below 5, there being no sixth entry to hold the  *)
(* half of a rating of 5.5 or more (C29_HalfEntryBelowFive).               *)
(***************************************************************************)
FilledCount == Cardinality({i \in 1..NumStars : i * rating.den <= rating.num})

HalfEntries == {i \in 1..Len(stars) : stars[i][2]}

FractionAtLeastHalf == 2 * (rating.num % rating.den) >= rating.den

StarsShape(half_expected) ==
    stars # <<>> =>
        /\ Len(stars) = 5
        /\ \A i \in 1..Len(stars) : ~(stars[i][1] /\ stars[i][2])
        /\ IF rating.kind \in {"text", "none"}
           THEN \A i \in 1..Len(stars) : stars[i] = <<FALSE, FALSE>>
           ELSE /\ \A i \in 1..Len(stars) : stars[i][1] <=> i <= FilledCount
                /\ Cardinality(HalfEntries) <= 1
                /\ \A i \in HalfEntries : i = FilledCount + 1
                /\ HalfEntries # {} <=> half_expected

C29_HalfEntryIffFraction == StarsShape(FractionAtLeastHalf)

C29_HalfEntryBelowFive ==
    StarsShape(FractionAtLeastHalf /\ rating.num < 5 * rating.den)

\* A rating of 3.5: three filled entries, then the half entry, then an
\* empty one.
C29_Witness ==
    /\ rating = Num(7, 2)
    /\ stars = <<<<TRUE, FALSE>>, <<TRUE, FALSE>>, <<TRUE, FALSE>>,
                 <<FALSE, TRUE>>, <<FALSE, FALSE>>>>

(***************************************************************************)
(* C27: in the advanced report every movie and every episode of an actor   *)
(* is counted in exactly one bucket of the yearly breakdown, that of its   *)
(* release or air year, so that total_projects summed over the buckets is  *)
(* total_movies + total_tv_episodes, whatever the years of the content.    *)
(***************************************************************************)
BucketsOfMovie(bd, m) == {y \in DOMAIN bd : m \in SeqRange(bd[y].movies)}
BucketsOfEpisode(bd, e) == {y \in DOMAIN bd : e \in SeqRange(bd[y].episodes)}

TotalProjects(bd) ==
    LET years == SetToSeq(DOMAIN bd)
    IN SumSeq([i \in 1..Len(years) |-> bd[years[i]].total_projects])

C27_EveryProjectInOneYearBucket ==
    command = "advanced" =>
        \A i \in 1..Len(results) :
            LET a == results[i].id
                bd == results[i].detailed_performance.yearly_breakdown
            IN /\ \A m \in Movies :
                      a \in movieActors[m] =>
                          BucketsOfMovie(bd, m) = {YearOf(release_date[m])}
               /\ \A e \in Episodes :
                      a \in episodeActors[e] =>
                          BucketsOfEpisode(bd, e) = {YearOf(air_date[e])}
               /\ TotalProjects(bd)
                      = results[i].total_movies + results[i].total_tv_episodes

(***************************************************************************)
(* C23: the flat average of the views (avg_rating, over all rating rows of *)
(* all episodes of the show) and TVShow.rating are two definitions that    *)
(* can differ on the same data; they agree on restricted data, such as a   *)
(* show whose episodes all have the same number of ratings and whose       *)
(* seasons all have the same number of episodes (a season without          *)
(* episodes adds to neither value and is left aside).                      *)
(***************************************************************************)
UniformData(sh) ==
    /\ \A e1, e2 \in EpisodesOfShow(sh) :
           Len(episodeRatings[e1]) = Len(episodeRatings[e2])
    /\ \A s1, s2 \in SeasonsOf(sh) :
           (EpisodesOf(s1) # {} /\ EpisodesOf(s2) # {}) =>
               Cardinality(EpisodesOf(s1)) = Cardinality(EpisodesOf(s2))

C23_FlatAndShowRatingAgreeOnUniformData ==
    (lastRead.op = "tv_show_list" /\ UniformData(lastRead.id)) =>
        \A first \in FirstRows : TVShow_rating(lastRead.id, first) = lastRead.result

(***************************************************************************)
(* C24: once Movie.rating, Episode.rating or TVShow.rating has been read   *)
(* on a loaded instance, every later read on that instance returns the     *)
(* same value, whatever rating rows have been added meanwhile; a read of   *)
(* Season.rating is computed from the rating rows present at the read.     *)
(***************************************************************************)
CachedModels == {"movie", "episode", "show"}

C24_CachedRatingsGoStale ==
    /\ [](lastRead.op \in CachedModels => lastRead.result = instance.rating)
    /\ [](lastRead.op = "season" => lastRead.result = Season_rating(lastRead.id))
    /\ [][(instance.model \in CachedModels /\ instance.rating # NotCalled) =>
              instance' = instance]_vars

\* A movie instance read before and again after a rating row was added for
\* the movie: the second read returns what the first returned.
C24_Witness ==
    /\ instance.model = "movie"
    /\ lastRead.op = "movie"
    /\ lastRead.result = NoRatingsYet
    /\ movieRatings[instance.pk] # <<>>

(***************************************************************************)
(* C25: the admin column avg_rating never raises: MovieAdmin.avg_rating    *)
(* returns "No ratings yet" for a movie without ratings and the mean to    *)
(* one decimal place with the number of ratings for a rated movie;         *)
(* TVShowAdmin.avg_rating returns "No ratings yet" for a show without      *)
(* rated episode.                                                          *)
(***************************************************************************)
C25_AdminAvgRatingNeverRaises ==
    /\ lastRead.op = "MovieAdmin.avg_rating" =>
           LET rows == movieRatings[lastRead.id]
           IN /\ lastRead.result.kind # "ValueError"
              /\ rows = <<>> => lastRead.result = NoRatingsYet
              /\ rows # <<>> =>
                     /\ lastRead.result.kind = "formatted"
                     /\ lastRead.result.count = Len(rows)
                     /\ 2 * (10 * SumSeq(rows) - lastRead.result.tenths * Len(rows))
                            \in (-Len(rows))..Len(rows)
    /\ lastRead.op = "TVShowAdmin.avg_rating" =>
           /\ lastRead.result.kind # "ValueError"
           /\ (\A e \in EpisodesOfShow(lastRead.id) : episodeRatings[e] = <<>>) =>
                  lastRead.result = NoRatingsYet

=============================================================================
